---- MODULE Spec2Model ----
(***************************************************************************)
(* drf-commons: the configurable related-field / deferred relation-write   *)
(* engine (serializers/base.py, serializers/fields/mixins/*.py) and the    *)
(* bulk update coordinator (views/mixins/crud.py, views/mixins/bulk.py).   *)
(*                                                                         *)
(* Storage is modelled as two tables.  A parent row carries `rel`, the set *)
(* of child pks its forward relation (fk, m2m, generic attribute) refers   *)
(* to; a child row carries `link`, the pk of the parent its back-reference *)
(* foreign key points at (NULL when cleared), and `val`, its own data.     *)
(***************************************************************************)
EXTENDS Integers, Sequences, FiniteSets, TLC

VARIABLES
    cfg,                \* the bound field: declaration + _resolved_relation_write
    db,                 \* storage as seen by the request's connection
    pc,                 \* position of the request inside is_valid() / save()
    request,            \* the parent serializer's initial data
    validated_data,     \* the field's entry of serializer.validated_data
    root_first_values,  \* the entry held aside by _extract_root_first_related_values
    tickets,            \* the DeferredRelatedOperation objects of this request
    instance,           \* pk of the parent instance (NULL before it exists)
    before,             \* storage when the serializer was constructed
    savepoint,          \* storage at the moment transaction.atomic was entered
    error,              \* the exception travelling out of save(), "" when none
    view,               \* the bulk viewset's configuration
    users,              \* the table the bulk viewset serves
    users_before,       \* that table when the bulk request arrived
    request_data,               \* request.data of the bulk request
    method,             \* its HTTP method, PUT or PATCH
    bpc,                \* position of the bulk request
    response,           \* status code of the bulk response, 0 before it is sent
    issued,             \* the persistence calls the bulk request has issued
    ambient,            \* what timezone.now() and the current-user context return
    raised,             \* the exception a direct list-serializer update raised
    stage,              \* the last step the bulk handler reached
    store,              \* the rows a bulk delete acts on and their dependents
    store_before,       \* those rows when the bulk delete request arrived
    response_data,      \* the data of the bulk delete response
    ctxvar,             \* _current_user_var: its value in each context
    frames,             \* the middleware calls in progress in each context
    last,               \* the middleware call that completed last
    declared,           \* a field's relation_write and the descriptor of its source
    binding,            \* what _resolve_relation_write returned last
    first_binding,      \* what it returned on the first call
    bind_calls,         \* how many times it has been called
    kwargs,             \* the arguments a field constructor is called with
    constructed,        \* the outcome of that constructor call
    finder,             \* a field's lookup configuration and its queryset
    text_input,              \* the string handed to to_internal_value
    converted,          \* what to_internal_value did with it
    records,            \* the rows of the table a file import writes to
    records_before,     \* those rows when the import request arrived
    upload,             \* the import request: mode flags and the file's rows
    ipc,                \* position of the import request
    imported,           \* the import response
    rejection,          \* the errors of the bulk update's error response
    versioned,          \* the versioned row: committed image, open transaction, lock
    savers              \* each writer's in-memory copy and where its save() stands

saveVars == <<cfg, db, pc, request, validated_data, root_first_values,
              tickets, instance, before, savepoint, error>>

bulkVars == <<view, users, users_before, request_data, method, bpc, response,
              issued, ambient, raised, stage>>

deleteVars == <<store, store_before, response_data>>

\* What the steps of a serializer save, and the bulk handlers, leave alone
middlewareVars == <<ctxvar, frames, last>>

classifierVars == <<declared, binding, first_binding, bind_calls>>

configVars == <<kwargs, constructed>>

lookupVars == <<finder, text_input, converted>>

importVars == <<records, records_before, upload, ipc, imported>>

envelopeVars == <<rejection>>

versionVars == <<versioned, savers>>

otherVars == <<configVars, lookupVars, importVars, envelopeVars, versionVars>>

outsideSave == <<bulkVars, deleteVars, middlewareVars, classifierVars, otherVars>>
outsideBulk == <<saveVars, deleteVars, middlewareVars, classifierVars, otherVars>>
outsideDelete == <<saveVars, middlewareVars, classifierVars, otherVars>>

vars == <<saveVars, bulkVars, deleteVars, middlewareVars, classifierVars, otherVars>>

----------------------------------------------------------------------------
(* Bounds and plain values *)

MaxItems == 2           \* longest list a many-valued field receives

NULL == 0               \* Python None / SQL NULL in a pk position
NoField == ""           \* a field name that is None

Max(S) == CHOOSE x \in S : \A y \in S : y <= x

SeqsUpTo(S, n) == UNION {[1..k -> S] : k \in 0..n}

----------------------------------------------------------------------------
(* Relation classifier and write-order resolution (mixins/inference.py) *)

infer_relation_kind_ignoring_auto_created(model_field) ==
    IF model_field.many_to_one \/ model_field.one_to_one
        THEN <<"fk", NoField>>
    ELSE IF model_field.many_to_many
        THEN <<"m2m", NoField>>
    ELSE <<"generic", NoField>>

infer_relation_kind(model_field) ==
    IF model_field.one_to_many /\ model_field.auto_created
        THEN <<"reverse_fk", model_field.field_name>>
    ELSE IF model_field.many_to_many /\ model_field.auto_created
        THEN <<"reverse_m2m", NoField>>
    ELSE IF model_field.many_to_one \/ model_field.one_to_one
        THEN <<"fk", NoField>>
    ELSE IF model_field.many_to_many
        THEN <<"m2m", NoField>>
    ELSE <<"generic", NoField>>

default_write_order_dependency_first(relation_kind) == "dependency_first"

default_write_order(relation_kind) ==
    IF relation_kind \in {"reverse_fk", "reverse_m2m"}
        THEN "root_first"
        ELSE "dependency_first"

\* relation_write holds every key; a key the declaration omits holds the
\* default that relation_write.get(key, default) returns.
resolve_relation_write(relation_write, model_field) ==
    LET inferred == IF model_field.exists
                        THEN infer_relation_kind(model_field)
                        ELSE <<"generic", NoField>>
        kind == IF relation_write.relation_kind # "auto"
                    THEN relation_write.relation_kind
                    ELSE inferred[1]
    IN  [relation_kind |-> kind,
         write_order |-> IF relation_write.write_order # "auto"
                            THEN relation_write.write_order
                            ELSE default_write_order(kind),
         child_link_field |-> IF relation_write.child_link_field # NoField
                                 THEN relation_write.child_link_field
                                 ELSE inferred[2],
         sync_mode |-> relation_write.sync_mode]

----------------------------------------------------------------------------
(* The serializer declarations under analysis *)

ModelField(o2m, m2m, m2o, auto, name, null) ==
    [exists |-> TRUE, one_to_many |-> o2m, many_to_many |-> m2m,
     many_to_one |-> m2o, one_to_one |-> FALSE, auto_created |-> auto,
     field_name |-> name, null |-> null]

NoModelField ==
    [exists |-> FALSE, one_to_many |-> FALSE, many_to_many |-> FALSE,
     many_to_one |-> FALSE, one_to_one |-> FALSE, auto_created |-> FALSE,
     field_name |-> NoField, null |-> FALSE]

ForwardFk == ModelField(FALSE, FALSE, TRUE, FALSE, "content_type", FALSE)
ForwardM2M == ModelField(FALSE, TRUE, FALSE, FALSE, "tags", FALSE)
ReverseM2M == ModelField(FALSE, TRUE, FALSE, TRUE, "tags", FALSE)
ReverseFk(null) == ModelField(TRUE, FALSE, FALSE, TRUE, "content_type", null)

RelationWrite(kind, order, link, sync) ==
    [relation_kind |-> kind, write_order |-> order,
     child_link_field |-> link, sync_mode |-> sync]

SyncModes == {"append", "replace", "sync"}

Declaration(many, uie, rw, mf) ==
    [many |-> many, update_if_exists |-> uie, relation_write |-> rw,
     model_field |-> mf]

Declarations ==
    \* PermissionSerializer.content_type = DataToIdField(...)
    {Declaration(FALSE, u, RelationWrite("auto", "auto", NoField, "append"),
                 ForwardFk) : u \in BOOLEAN}
    \* a forward many-to-many field, inferred and with a root_first override
    \cup {Declaration(TRUE, FALSE, RelationWrite("auto", o, NoField, s),
                      ForwardM2M) :
            o \in {"auto", "root_first"}, s \in {"append", "replace"}}
    \cup {Declaration(TRUE, FALSE, RelationWrite("auto", "auto", NoField, s),
                      ReverseM2M) : s \in {"append", "sync"}}
    \* ContentTypeWithPermissionsSerializer.permissions = ManyDataToIdField(...)
    \cup {Declaration(TRUE, u,
                      RelationWrite("reverse_fk", "root_first", "content_type", s),
                      ReverseFk(n)) :
            u \in BOOLEAN, s \in SyncModes, n \in BOOLEAN}
    \* reverse_fk by override on a source that is no model field
    \cup {Declaration(TRUE, FALSE,
                      RelationWrite("reverse_fk", "auto", l, s),
                      NoModelField) :
            l \in {NoField, "content_type"}, s \in {"append", "replace"}}
    \* a single-valued field written root-first through plain assignment
    \cup {Declaration(FALSE, FALSE,
                      RelationWrite(k, "root_first", NoField, "append"),
                      ForwardFk) : k \in {"auto", "generic"}}

\* ConfigurableRelatedFieldMixin.__init__ followed by bind()
BoundField(decl) ==
    [many |-> decl.many,
     input_formats |-> {"nested", "id"},
     create_if_nested |-> TRUE,
     update_if_exists |-> decl.update_if_exists,
     relation_write |-> decl.relation_write,
     resolved_relation_write |->
         resolve_relation_write(decl.relation_write, decl.model_field),
     bound_model_field |-> decl.model_field]

----------------------------------------------------------------------------
(* Storage *)

Row(link, val) == [link |-> link, val |-> val]

\* Two parents; children 1 and 2 belong to parent 1, child 3 to parent 2.
PopulatedDb ==
    [parents |-> (1 :> [rel |-> {1}]) @@ (2 :> [rel |-> {3}]),
     children |-> (1 :> Row(1, "old")) @@ (2 :> Row(1, "old"))
                  @@ (3 :> Row(2, "old"))]

\* One parent and one unlinked child.
SparseDb ==
    [parents |-> (1 :> [rel |-> {}]),
     children |-> (1 :> Row(NULL, "old"))]

InitialDbs == {PopulatedDb, SparseDb}

NewPk(table) == IF DOMAIN table = {} THEN 1 ELSE Max(DOMAIN table) + 1

\* parent_instance.<source_attr> for a reverse foreign key: the children
\* whose link points at the parent
ReverseManager(d, parent) ==
    {c \in DOMAIN d.children : d.children[c].link = parent}

----------------------------------------------------------------------------
(* Values travelling through the serializer *)

\* A model instance in memory: the row as it was read.
Inst(pk, row) == [t |-> "inst", k |-> 0, pk |-> pk, link |-> row.link, val |-> row.val]

\* A DeferredRelatedOperation: k indexes `tickets`.
Deferred(k) == [t |-> "ticket", k |-> k, pk |-> NULL, link |-> NULL, val |-> ""]

IsDeferred(item) == item.t = "ticket"

\* External input of one element: an integer id, or a dict.  For a dict,
\* pk is the value under lookup_field (NULL when the key is absent), valid
\* tells whether the child serializer accepts it and fails whether the
\* child serializer's save() raises.
RawId(pk) == [t |-> "id", pk |-> pk, valid |-> TRUE, fails |-> FALSE]
RawNested(pk, valid, fails) == [t |-> "nested", pk |-> pk, valid |-> valid, fails |-> fails]

RawItems ==
    {RawId(pk) : pk \in {1, 3}}
    \cup {RawId(9)}
    \cup {RawNested(NULL, TRUE, FALSE), RawNested(NULL, TRUE, TRUE),
          RawNested(NULL, FALSE, FALSE), RawNested(2, TRUE, FALSE)}

----------------------------------------------------------------------------
(* Input conversion (mixins/conversion.py) *)

Converted(ok, item, new_tickets, d) ==
    [ok |-> ok, item |-> item, tickets |-> new_tickets, db |-> d]

handle_id_input(field, d, raw) ==
    IF raw.pk \in DOMAIN d.children
        THEN Converted(TRUE, Inst(raw.pk, d.children[raw.pk]), <<>>, d)
        ELSE Converted(FALSE, Deferred(0), <<>>, d)       \* does_not_exist

\* A variant that persists the nested child while validating.
handle_nested_input_saving(field, d, raw, k) ==
    IF ~field.create_if_nested \/ ~raw.valid
        THEN Converted(FALSE, Deferred(0), <<>>, d)
    ELSE
        LET bound_instance ==
                IF raw.pk # NULL /\ field.update_if_exists
                   /\ raw.pk \in DOMAIN d.children
                    THEN raw.pk
                    ELSE NULL
            pk == IF bound_instance = NULL THEN NewPk(d.children)
                                           ELSE bound_instance
            link == IF bound_instance = NULL THEN NULL
                                             ELSE d.children[pk].link
            written == [d EXCEPT !.children =
                            [c \in DOMAIN @ \cup {pk} |->
                                IF c = pk THEN Row(link, "new") ELSE @[c]]]
        IN  Converted(TRUE, Inst(pk, Row(link, "new")), <<>>, written)

\* k is the index the new DeferredRelatedOperation gets in `tickets`.
handle_nested_input(field, d, raw, k) ==
    IF ~field.create_if_nested
        THEN Converted(FALSE, Deferred(0), <<>>, d)       \* invalid
    ELSE
        LET bound_instance ==
                IF raw.pk # NULL /\ field.update_if_exists
                   /\ raw.pk \in DOMAIN d.children
                    THEN raw.pk
                    ELSE NULL
        IN  IF ~raw.valid
                THEN Converted(FALSE, Deferred(0), <<>>, d)
                ELSE Converted(TRUE, Deferred(k),
                               <<[instance |-> bound_instance,
                                  fails |-> raw.fails,
                                  saves |-> 0,
                                  result |-> NULL]>>,
                               d)

to_internal_value(field, d, raw, k) ==
    IF raw.t = "nested" /\ "nested" \in field.input_formats
        THEN handle_nested_input(field, d, raw, k)
    ELSE IF raw.t = "id" /\ "id" \in field.input_formats
        THEN handle_id_input(field, d, raw)
    ELSE Converted(FALSE, Deferred(0), <<>>, d)           \* incorrect_type

\* A many-valued field converts its list element by element.
RECURSIVE many_to_internal_value(_, _, _, _)
many_to_internal_value(field, acc, raws, i) ==
    IF i > Len(raws) THEN acc
    ELSE
        LET c == to_internal_value(field, acc.db, raws[i], Len(acc.tickets) + 1)
        IN  many_to_internal_value(
                field,
                [ok |-> acc.ok /\ c.ok,
                 items |-> IF c.ok THEN Append(acc.items, c.item) ELSE acc.items,
                 tickets |-> acc.tickets \o c.tickets,
                 db |-> c.db],
                raws, i + 1)

\* The field's part of serializer.is_valid()
run_validation(field, d, raws) ==
    many_to_internal_value(
        field, [ok |-> TRUE, items |-> <<>>, tickets |-> <<>>, db |-> d],
        raws, 1)

----------------------------------------------------------------------------
(* Deferred resolution (mixins/deferred.py, mixins/relations.py) *)

contains_deferred_related(value) ==
    \E i \in 1..Len(value) : IsDeferred(value[i])

\* serializer.save(**save_kwargs) of the child serializer: creates the child,
\* or updates the instance it was bound to; extra keyword values are written
\* with the validated data.  link_kw is the injected parent pk, NULL when
\* nothing is injected.
nested_serializer_save(st, k, link_kw) ==
    LET t == st.tickets[k]
        counted == [st.tickets EXCEPT ![k].saves = @ + 1]
    IN  IF t.fails
            THEN [st EXCEPT !.tickets = counted, !.error = "ChildSaveError"]
        ELSE IF t.instance = NULL
            THEN LET pk == NewPk(st.db.children)
                     row == Row(link_kw, "new")
                 IN  [st EXCEPT
                        !.db.children = @ @@ (pk :> row),
                        !.tickets = [counted EXCEPT ![k].result = pk,
                                                    ![k].instance = pk],
                        !.items = Append(@, Inst(pk, row))]
        ELSE LET pk == t.instance
                 old == st.db.children[pk]
                 row == Row(IF link_kw # NULL THEN link_kw ELSE old.link, "new")
             IN  [st EXCEPT
                    !.db.children = [@ EXCEPT ![pk] = row],
                    !.tickets = [counted EXCEPT ![k].result = pk],
                    !.items = Append(@, Inst(pk, row))]

\* A variant that saves the child before the link field is looked at.
save_deferred_serializer_unchecked(field, st, k, parent_instance) ==
    nested_serializer_save(
        st, k,
        IF field.resolved_relation_write.child_link_field = NoField
            THEN NULL ELSE parent_instance)

\* RelatedFieldRelationWriteMixin._save_deferred_serializer
save_deferred_serializer(field, st, k, parent_instance) ==
    IF parent_instance # NULL
       /\ field.resolved_relation_write.relation_kind = "reverse_fk"
        THEN IF field.resolved_relation_write.child_link_field = NoField
                THEN [st EXCEPT !.error = "ValidationError"]
                ELSE nested_serializer_save(st, k, parent_instance)
        ELSE nested_serializer_save(st, k, NULL)

\* A variant that consumes the operation twice.
resolve_twice(field, st, k, parent_instance) ==
    LET once == save_deferred_serializer(field, st, k, parent_instance)
    IN  IF once.error # ""
            THEN once
            ELSE save_deferred_serializer(
                    field, [once EXCEPT !.items = st.items], k, parent_instance)

\* DeferredRelatedOperation.resolve
resolve(field, st, k, parent_instance) ==
    save_deferred_serializer(field, st, k, parent_instance)

\* st.items collects the resolved list; an exception stops the walk.
RECURSIVE resolve_related_value(_, _, _, _, _)
resolve_related_value(field, st, value, i, parent_instance) ==
    IF i > Len(value) \/ st.error # "" THEN st
    ELSE resolve_related_value(
            field,
            IF IsDeferred(value[i])
                THEN resolve(field, st, value[i].k, parent_instance)
                ELSE [st EXCEPT !.items = Append(@, value[i])],
            value, i + 1, parent_instance)

Working(d, tks) == [db |-> d, tickets |-> tks, items |-> <<>>, error |-> ""]

----------------------------------------------------------------------------
(* Root-first relation application (mixins/relations.py) *)

Pks(value) == {value[i].pk : i \in 1..Len(value)}

\* A variant that never relinks an object.
relink_children_skipped(d, values, i, parent_pk) == d

\* for obj in values: relink and save the objects not yet linked to the parent.
\* obj.save() writes the instance as it is held in memory.
RECURSIVE relink_children(_, _, _, _)
relink_children(d, values, i, parent_pk) ==
    IF i > Len(values) THEN d
    ELSE relink_children(
            IF values[i].link # parent_pk
                THEN [d EXCEPT !.children[values[i].pk] =
                                    Row(parent_pk, values[i].val)]
                ELSE d,
            values, i + 1, parent_pk)

\* A variant that leaves the children that were not provided linked.
unlink_missing_skipped(d, parent_pk, provided_ids) == d

\* manager.exclude(pk__in=provided_ids).update(**{child_link_field: None})
unlink_missing(d, parent_pk, provided_ids) ==
    [d EXCEPT !.children =
        [c \in DOMAIN @ |->
            IF @[c].link = parent_pk /\ c \notin provided_ids
                THEN Row(NULL, @[c].val)
                ELSE @[c]]]

\* A variant that takes every child link for nullable.
nullable_child_link_assumed(field) == TRUE

\* self._bound_model_field and getattr(self._bound_model_field.field, "null",
\* False)
nullable_child_link(field) ==
    field.bound_model_field.exists /\ field.bound_model_field.null

\* A set() that removes nothing
manager_set_keeping(related, values) == related \cup Pks(values)

\* manager.set(values): the related set becomes the given instances
manager_set(related, values) == Pks(values)

\* manager.add(*values)
manager_add(related, values) == related \cup Pks(values)

\* Returns [db, error]; storage written before a raise stays written until
\* the enclosing transaction ends.
apply_root_first_relation(field, d, parent_pk, resolved_value) ==
    LET rw == field.resolved_relation_write
    IN  IF rw.relation_kind = "reverse_fk" THEN
            IF rw.child_link_field = NoField
                THEN [db |-> d, error |-> "ValidationError"]
            ELSE
                LET linked == relink_children(d, resolved_value, 1, parent_pk)
                IN  IF rw.sync_mode \in {"replace", "sync"} THEN
                        IF ~nullable_child_link(field)
                            THEN [db |-> linked,
                                  error |-> "ValidationError(nullable)"]
                            ELSE [db |-> unlink_missing(linked, parent_pk,
                                                        Pks(resolved_value)),
                                  error |-> ""]
                    ELSE [db |-> linked, error |-> ""]
        ELSE IF rw.relation_kind \in {"reverse_m2m", "m2m"} THEN
            IF rw.sync_mode \in {"replace", "sync"}
                THEN [db |-> [d EXCEPT !.parents[parent_pk].rel =
                                            manager_set(@, resolved_value)],
                      error |-> ""]
            ELSE IF Len(resolved_value) > 0
                THEN [db |-> [d EXCEPT !.parents[parent_pk].rel =
                                            manager_add(@, resolved_value)],
                      error |-> ""]
            ELSE [db |-> d, error |-> ""]
        ELSE [db |-> [d EXCEPT !.parents[parent_pk].rel = Pks(resolved_value)],
              error |-> ""]

----------------------------------------------------------------------------
(* BaseModelSerializer (serializers/base.py) *)

Absent == [present |-> FALSE, value |-> <<>>]
Present(value) == [present |-> TRUE, value |-> value]

\* A variant that reads the entry without popping it.
extract_root_first_related_values_keeping(field, data) ==
    IF data.present /\ field.resolved_relation_write.write_order = "root_first"
        THEN [held |-> data, data |-> data]
        ELSE [held |-> Absent, data |-> data]

\* Returns [held, data]: the popped entry and what is left for the parent.
extract_root_first_related_values(field, data) ==
    IF data.present /\ field.resolved_relation_write.write_order = "root_first"
        THEN [held |-> data, data |-> Absent]
        ELSE [held |-> Absent, data |-> data]

\* A variant that hands the entry to the parent unresolved.
resolve_dependency_first_related_values_skipped(field, st, data) ==
    [st EXCEPT !.items = data.value]

\* Returns the working state; st.items is the resolved entry when resolved.
resolve_dependency_first_related_values(field, st, data) ==
    IF data.present
       /\ field.resolved_relation_write.write_order = "dependency_first"
       /\ contains_deferred_related(data.value)
        THEN LET r == resolve_related_value(field, st, data.value, 1, NULL)
             IN  [r EXCEPT !.items = IF r.error = "" THEN r.items ELSE data.value]
        ELSE [st EXCEPT !.items = data.value]

\* super().create(validated_data) / super().update(instance, validated_data):
\* the ORM writes the parent row from the data it is handed.  A value that
\* is no model instance cannot be stored.  Returns [db, pk, error].
model_serializer_write(d, req, data, current) ==
    IF req.parent_fails
        THEN [db |-> d, pk |-> current, error |-> "ParentSaveError"]
    ELSE IF data.present /\ contains_deferred_related(data.value)
        THEN [db |-> d, pk |-> current, error |-> "TypeError"]
    ELSE IF req.op = "create"
        THEN LET pk == NewPk(d.parents)
             IN  [db |-> [d EXCEPT !.parents = @ @@
                            (pk :> [rel |-> IF data.present
                                                THEN Pks(data.value) ELSE {}])],
                  pk |-> pk, error |-> ""]
    ELSE [db |-> IF data.present
                    THEN [d EXCEPT !.parents[current].rel = Pks(data.value)]
                    ELSE d,
          pk |-> current, error |-> ""]

\* Returns [db, tickets, error].
apply_root_first_related_values(field, d, tks, parent_pk, held) ==
    IF ~held.present
        THEN [db |-> d, tickets |-> tks, error |-> ""]
    ELSE
        LET r == resolve_related_value(field, Working(d, tks), held.value, 1,
                                       parent_pk)
        IN  IF r.error # ""
                THEN [db |-> r.db, tickets |-> r.tickets, error |-> r.error]
                ELSE LET a == apply_root_first_relation(field, r.db, parent_pk,
                                                        r.items)
                     IN  [db |-> a.db, tickets |-> r.tickets, error |-> a.error]

\* A variant without the transaction: whatever was written stays.
atomic_exit_without_rollback(d, saved, err) == d

\* @transaction.atomic around save(): what storage holds once the block is left
atomic_exit(d, saved, err) == IF err # "" THEN saved ELSE d

----------------------------------------------------------------------------
(* Requests *)

Requests(field, d) ==
    {[op |-> o, pk |-> p, parent_valid |-> v, parent_fails |-> f, items |-> its] :
        o \in {"create", "update"}, p \in {NULL, 1},
        v \in BOOLEAN, f \in BOOLEAN,
        its \in SeqsUpTo(RawItems, MaxItems)}

WellFormed(field, req) ==
    /\ (req.op = "create") = (req.pk = NULL)
    /\ ~field.many => Len(req.items) = 1
    /\ ~req.parent_valid => ~req.parent_fails

----------------------------------------------------------------------------
(* Actions *)

\* A variant whose read of the child link field takes the key out
\* (dict.pop in place of dict.get).
field_after_reads_popping(field) ==
    [field EXCEPT !.resolved_relation_write.child_link_field = NoField]

\* The field object once an operation has used it.  Every use of
\* relation_write and _resolved_relation_write outside __init__ and bind is
\* a subscript or a .get(), so the object is left as it was.
field_after_reads(field) == field

\* serializer = Serializer(instance?, data=payload)
Construct ==
    /\ pc = "idle"
    /\ \E req \in Requests(cfg, db) :
        /\ WellFormed(cfg, req)
        /\ request' = req
        /\ instance' = req.pk
    /\ before' = db
    /\ pc' = "bound"
    /\ UNCHANGED <<cfg, db, validated_data, root_first_values, tickets,
                   savepoint, error>>
    /\ UNCHANGED outsideSave

\* serializer.is_valid()
IsValid ==
    /\ pc = "bound"
    /\ LET c == run_validation(cfg, db, request.items)
       IN  /\ db' = c.db
           /\ IF c.ok /\ request.parent_valid
                THEN /\ pc' = "valid"
                     /\ validated_data' = Present(c.items)
                     /\ tickets' = c.tickets
                ELSE /\ pc' = "invalid"
                     /\ validated_data' = Absent
                     /\ tickets' = <<>>
    /\ cfg' = field_after_reads(cfg)
    /\ UNCHANGED <<request, root_first_values, instance, before,
                   savepoint, error>>
    /\ UNCHANGED outsideSave

\* serializer.save(): entering the atomic block
SaveEnter ==
    /\ pc = "valid"
    /\ savepoint' = db
    /\ pc' = "extract"
    /\ UNCHANGED <<cfg, db, request, validated_data, root_first_values,
                   tickets, instance, before, error>>
    /\ UNCHANGED outsideSave

\* create()/update(), first line
ExtractRootFirst ==
    /\ pc = "extract"
    /\ LET e == extract_root_first_related_values(cfg, validated_data)
       IN  /\ root_first_values' = e.held
           /\ validated_data' = e.data
    /\ pc' = "resolve"
    /\ cfg' = field_after_reads(cfg)
    /\ UNCHANGED <<db, request, tickets, instance, before, savepoint,
                   error>>
    /\ UNCHANGED outsideSave

\* create()/update(), second line
ResolveDependencyFirst ==
    /\ pc = "resolve"
    /\ LET r == resolve_dependency_first_related_values(
                    cfg, Working(db, tickets), validated_data)
       IN  /\ db' = r.db
           /\ tickets' = r.tickets
           /\ error' = r.error
           /\ validated_data' = IF validated_data.present
                                    THEN Present(r.items) ELSE validated_data
           /\ pc' = IF r.error # "" THEN "raised" ELSE "write"
    /\ cfg' = field_after_reads(cfg)
    /\ UNCHANGED <<request, root_first_values, instance, before,
                   savepoint>>
    /\ UNCHANGED outsideSave

\* create()/update(), third line: the parent's own create or update
ParentWrite ==
    /\ pc = "write"
    /\ LET w == model_serializer_write(db, request, validated_data, instance)
       IN  /\ db' = w.db
           /\ instance' = w.pk
           /\ error' = w.error
           /\ pc' = IF w.error # "" THEN "raised" ELSE "apply"
    /\ UNCHANGED <<cfg, request, validated_data, root_first_values, tickets,
                   before, savepoint>>
    /\ UNCHANGED outsideSave

\* create()/update(), fourth line
ApplyRootFirst ==
    /\ pc = "apply"
    /\ LET a == apply_root_first_related_values(
                    cfg, db, tickets, instance, root_first_values)
       IN  /\ db' = a.db
           /\ tickets' = a.tickets
           /\ error' = a.error
           /\ pc' = IF a.error # "" THEN "raised" ELSE "returning"
    /\ cfg' = field_after_reads(cfg)
    /\ UNCHANGED <<request, validated_data, root_first_values, instance,
                   before, savepoint>>
    /\ UNCHANGED outsideSave

\* leaving the atomic block: commit, or roll back and re-raise
SaveExit ==
    /\ pc \in {"raised", "returning"}
    /\ db' = atomic_exit(db, savepoint, error)
    /\ pc' = IF error # "" THEN "failed" ELSE "saved"
    /\ UNCHANGED <<cfg, request, validated_data, root_first_values, tickets,
                   instance, before, savepoint, error>>
    /\ UNCHANGED outsideSave

----------------------------------------------------------------------------
(* Bulk update: request data *)

MaxRows == 2            \* longest bulk payload
BULK_OPERATION_BATCH_SIZE == 1000

\* Python str(int) and int(str), a string being its sequence of digits
RECURSIVE Dec(_)
Dec(n) == IF n < 10 THEN <<n>> ELSE Dec(n \div 10) \o <<n % 10>>

RECURSIVE ParseInt(_)
ParseInt(s) ==
    IF Len(s) = 0 THEN 0
    ELSE 10 * ParseInt(SubSeq(s, 1, Len(s) - 1)) + s[Len(s)]

\* The value under a row's "id" key: an int, a str, or no key at all
IntId(n) == [t |-> "int", n |-> n, s |-> <<>>]
StrId(s) == [t |-> "str", n |-> 0, s |-> s]
AbsentId == [t |-> "absent", n |-> 0, s |-> <<>>]
NoneId == [t |-> "none", n |-> 0, s |-> <<>>]

str(id) == IF id.t = "int" THEN Dec(id.n) ELSE id.s

\* The pk a lookup value is coerced to by the ORM
to_python(id) == IF id.t = "int" THEN id.n ELSE ParseInt(id.s)

RowIds == {IntId(1), IntId(2), IntId(3), IntId(4), StrId(<<1>>), AbsentId}

\* Attribute values: a plain value, Python None, a DeferredRelatedOperation,
\* or a list or tuple of values
Plain(v) == [t |-> "plain", v |-> v, items |-> <<>>]
NoneValue == [t |-> "none", v |-> "", items |-> <<>>]
DeferredOperation == [t |-> "deferred", v |-> "", items |-> <<>>]
ListValue(items) == [t |-> "list", v |-> "", items |-> items]
TupleValue(items) == [t |-> "tuple", v |-> "", items |-> items]

FieldValues ==
    [email |-> {Plain("a@x"), Plain("b@x")}, username |-> {Plain("u")}]

RowFields ==
    UNION {[names -> UNION {FieldValues[n] : n \in names}] :
                names \in SUBSET {"email", "username"}}

Rows ==
    {[is_dict |-> TRUE, id |-> i, fields |-> f] :
        i \in RowIds,
        f \in {g \in RowFields : \A n \in DOMAIN g : g[n] \in FieldValues[n]}}
    \cup {[is_dict |-> FALSE, id |-> AbsentId, fields |-> <<>>]}

Payloads ==
    {[is_list |-> TRUE, rows |-> r] : r \in SeqsUpTo(Rows, MaxRows)}
    \cup {[is_list |-> FALSE, rows |-> <<>>]}

\* Users 1 and 2 are inside the view's queryset; user 3 exists outside it;
\* there is no user 4.
InitialUsers ==
    (1 :> [email |-> Plain("old1@x"), username |-> Plain("user1")])
    @@ (2 :> [email |-> Plain("old2@x"), username |-> Plain("user2")])
    @@ (3 :> [email |-> Plain("old3@x"), username |-> Plain("user3")])

Views ==
    {[use_save_on_bulk_update |-> m,
      bulk_batch_size |-> b,
      bulk_direct_serializers_only |-> TRUE,
      queryset |-> {1, 2},
      serializer_fields |->
        {[name |-> "id", read_only |-> TRUE, kind |-> "plain"],
         [name |-> "email", read_only |-> FALSE, kind |-> "plain"],
         [name |-> "username", read_only |-> FALSE, kind |-> "plain"]},
      required |-> {"username"}] :
        m \in BOOLEAN, b \in {NULL, 1}}

----------------------------------------------------------------------------
(* Bulk update: views/mixins/bulk.py, views/mixins/shared.py,               *)
(* views/mixins/crud.py                                                     *)

get_bulk_batch_size(v) ==
    IF v.bulk_batch_size # NULL
        THEN v.bulk_batch_size
        ELSE BULK_OPERATION_BATCH_SIZE

\* "" when the envelope is accepted, else the ValidationError
validate_bulk_data(v, payload) ==
    IF ~payload.is_list THEN "not_list"
    ELSE IF Len(payload.rows) = 0 THEN "empty"
    ELSE IF Len(payload.rows) > get_bulk_batch_size(v) THEN "batch_size"
    ELSE ""

collect_unsupported_bulk_serializer_fields(fields) ==
    {f.name : f \in {g \in fields :
                        ~g.read_only /\ g.kind \in {"configurable", "nested"}}}

\* A variant that never checks the serializer's fields
validate_bulk_direct_serializer_contract_skipped(v) == ""

\* "" when the serializer may be used in a bulk path
validate_bulk_direct_serializer_contract(v) ==
    IF ~v.bulk_direct_serializers_only THEN ""
    ELSE IF collect_unsupported_bulk_serializer_fields(v.serializer_fields) = {}
        THEN ""
    ELSE "unsupported_fields"

\* The ascending sequence of the elements of a set of pks
RECURSIVE Ascending(_)
Ascending(S) ==
    IF S = {} THEN <<>>
    ELSE LET m == CHOOSE x \in S : \A y \in S : x <= y
         IN  <<m>> \o Ascending(S \ {m})

Instance(pk, table) == [pk |-> pk, attrs |-> table[pk]]

\* A filter that looks through the whole table instead of the queryset
queryset_filter_unscoped(queryset, table, requested_ids) ==
    LET wanted == {to_python(requested_ids[i]) : i \in 1..Len(requested_ids)}
        found == Ascending({pk \in DOMAIN table : pk \in wanted})
    IN  [j \in 1..Len(found) |-> Instance(found[j], table)]

\* list(self.get_queryset().filter(pk__in=requested_ids)): the rows of the
\* queryset whose pk is among the requested ones, in the database's order
queryset_filter(queryset, table, requested_ids) ==
    LET wanted == {to_python(requested_ids[i]) : i \in 1..Len(requested_ids)}
        found == Ascending({pk \in queryset \cap DOMAIN table : pk \in wanted})
    IN  [j \in 1..Len(found) |-> Instance(found[j], table)]

\* "id" not in item or item.get("id") in (None, "")
lacks_id(item) == item.id.t \in {"absent", "none"} \/ item.id = StrId(<<>>)

\* A scan that keeps no record of the ids it has seen
RECURSIVE scan_rows_without_seen_ids(_, _, _, _)
scan_rows_without_seen_ids(rows, i, requested_ids, seen_ids) ==
    IF i > Len(rows)
        THEN [error |-> "", index |-> 0, requested_ids |-> requested_ids]
    ELSE IF ~rows[i].is_dict
        THEN [error |-> "not_object", index |-> i - 1, requested_ids |-> <<>>]
    ELSE IF lacks_id(rows[i])
        THEN [error |-> "missing_id", index |-> i - 1, requested_ids |-> <<>>]
    ELSE scan_rows_without_seen_ids(rows, i + 1,
                                    Append(requested_ids, rows[i].id), seen_ids)

\* the for loop over the payload: requested_ids in row order, or the first
\* row's error
RECURSIVE scan_rows(_, _, _, _)
scan_rows(rows, i, requested_ids, seen_ids) ==
    IF i > Len(rows)
        THEN [error |-> "", index |-> 0, requested_ids |-> requested_ids]
    ELSE IF ~rows[i].is_dict
        THEN [error |-> "not_object", index |-> i - 1, requested_ids |-> <<>>]
    ELSE IF lacks_id(rows[i])
        THEN [error |-> "missing_id", index |-> i - 1, requested_ids |-> <<>>]
    ELSE IF str(rows[i].id) \in seen_ids
        THEN [error |-> "duplicate_id", index |-> i - 1, requested_ids |-> <<>>]
    ELSE scan_rows(rows, i + 1, Append(requested_ids, rows[i].id),
                   seen_ids \cup {str(rows[i].id)})

\* {str(obj.pk): obj for obj in instances}
instance_by_id(instances) ==
    [key \in {Dec(instances[j].pk) : j \in 1..Len(instances)} |->
        LET j == CHOOSE j \in 1..Len(instances) : Dec(instances[j].pk) = key
        IN  instances[j]]

\* The instances as the database returned them, whatever the row order
in_queryset_order(instances, rows) == instances

\* [instance_by_id[str(item["id"])] for item in payload]
in_request_order(instances, rows) ==
    [i \in 1..Len(rows) |-> instance_by_id(instances)[str(rows[i].id)]]

\* A ValidationError raised before the queryset is evaluated; `queried` tells
\* whether get_queryset().filter(...) has been evaluated
Rejected(err, index) ==
    [error |-> err, index |-> index, instances |-> <<>>, queried |-> FALSE]

resolve_bulk_update_instances(queryset, table, payload) ==
    IF ~payload.is_list THEN Rejected("not_list", 0)
    ELSE IF Len(payload.rows) = 0 THEN Rejected("empty", 0)
    ELSE
        LET scan == scan_rows(payload.rows, 1, <<>>, {})
        IN  IF scan.error # "" THEN Rejected(scan.error, scan.index)
            ELSE
                LET instances == queryset_filter(queryset, table,
                                                 scan.requested_ids)
                    keys == DOMAIN instance_by_id(instances)
                    missing_ids ==
                        SelectSeq(scan.requested_ids,
                                  LAMBDA r : str(r) \notin keys)
                IN  IF Len(missing_ids) > 0
                        THEN [Rejected("missing_ids", 0) EXCEPT !.queried = TRUE]
                    ELSE [error |-> "", index |-> 0, queried |-> TRUE,
                          instances |->
                            in_request_order(instances, payload.rows)]

\* serializer.is_valid(raise_exception=True) of the list serializer: every
\* row is validated by the child serializer; the read-only id is dropped.
list_serializer_is_valid(v, partial, rows) ==
    [ok |-> /\ \A i \in 1..Len(rows) : rows[i].is_dict
            /\ partial \/ \A i \in 1..Len(rows) :
                            v.required \subseteq DOMAIN rows[i].fields,
     validated_data |-> [i \in 1..Len(rows) |-> rows[i].fields]]

----------------------------------------------------------------------------
(* BulkUpdateListSerializer.update (serializers/base.py) *)

SaveCall(pk) == [call |-> "save", pks |-> <<pk>>, fields |-> {}]
BulkUpdateCall(pks, fields) == [call |-> "bulk_update", pks |-> pks, fields |-> fields]

\* setattr(inst, attr, value) for every entry of item_data
assign(inst, item_data) ==
    [inst EXCEPT !.attrs = [a \in DOMAIN @ |->
                                IF a \in DOMAIN item_data THEN item_data[a] ELSE @[a]]]

\* BulkUpdateListSerializer._contains_deferred_related_operation
RECURSIVE contains_deferred_related_operation(_)
contains_deferred_related_operation(value) ==
    IF value.t = "deferred" THEN TRUE
    ELSE IF value.t = "list"
        THEN \E i \in 1..Len(value.items) :
                contains_deferred_related_operation(value.items[i])
    ELSE IF value.t = "tuple"
        THEN \E i \in 1..Len(value.items) :
                contains_deferred_related_operation(value.items[i])
    ELSE FALSE

\* self._model_has_field(model_class, field_name): the model's fields are the
\* columns of its table
model_has_field(table, field_name) ==
    \E pk \in DOMAIN table : field_name \in DOMAIN table[pk]

\* A variant that writes the audit values over the ones the row carries
apply_audit_defaults_overriding(item_data, has_updated_at, has_updated_by, now_value, current_user) ==
    LET with_at == IF has_updated_at
                      THEN [a \in DOMAIN item_data \cup {"updated_at"} |->
                                IF a = "updated_at" THEN now_value
                                                    ELSE item_data[a]]
                      ELSE item_data
    IN  IF has_updated_by /\ current_user # NoneValue
           THEN [a \in DOMAIN with_at \cup {"updated_by"} |->
                    IF a = "updated_by" THEN current_user ELSE with_at[a]]
           ELSE with_at

\* _apply_audit_defaults_if_missing: the row's data with the audit values
\* added where the row carries none
apply_audit_defaults_if_missing(item_data, has_updated_at, has_updated_by, now_value, current_user) ==
    LET with_at == IF has_updated_at /\ "updated_at" \notin DOMAIN item_data
                      THEN [a \in DOMAIN item_data \cup {"updated_at"} |->
                                IF a = "updated_at" THEN now_value
                                                    ELSE item_data[a]]
                      ELSE item_data
    IN  IF has_updated_by /\ "updated_by" \notin DOMAIN with_at
           /\ current_user # NoneValue
           THEN [a \in DOMAIN with_at \cup {"updated_by"} |->
                    IF a = "updated_by" THEN current_user ELSE with_at[a]]
           ELSE with_at

\* The accumulator of the row loop once a row has raised
Raising(acc) == [acc EXCEPT !.error = "ValidationError(deferred)"]

\* the for loop over zip(instances, validated_rows): audit defaults in
\* direct-write mode, the deferred-operation check and setattr of every
\* attribute, then inst.save() in save-loop mode.  A raise leaves the loop
\* with what earlier rows have already written.
RECURSIVE update_loop(_, _, _, _, _, _, _)
update_loop(use_save, audit, amb, instances, validated_rows, idx, acc) ==
    IF idx > Len(instances) \/ idx > Len(validated_rows) THEN acc
    ELSE
        LET item_data == IF ~use_save
                            THEN apply_audit_defaults_if_missing(
                                    validated_rows[idx], audit.has_updated_at,
                                    audit.has_updated_by, amb.now,
                                    amb.current_user)
                            ELSE validated_rows[idx]
            inst == assign(instances[idx], item_data)
        IN  IF \E a \in DOMAIN item_data :
                    contains_deferred_related_operation(item_data[a])
                THEN Raising(acc)
            ELSE update_loop(
                    use_save, audit, amb, instances, validated_rows, idx + 1,
                    [table |-> IF use_save
                                  THEN [acc.table EXCEPT ![inst.pk] = inst.attrs]
                                  ELSE acc.table,
                     issued |-> IF use_save
                                   THEN Append(acc.issued, SaveCall(inst.pk))
                                   ELSE acc.issued,
                     instances_to_update |->
                        Append(acc.instances_to_update, inst),
                     update_fields |-> acc.update_fields \cup DOMAIN item_data,
                     error |-> ""])

\* A variant whose statement is not restricted to the instances' rows.
bulk_update_unfiltered(table, instances, fields) ==
    [pk \in DOMAIN table |->
        [a \in DOMAIN table[pk] |->
            IF a \in fields THEN instances[1].attrs[a] ELSE table[pk][a]]]

\* model_class.objects.bulk_update(instances_to_update, list(update_fields))
bulk_update(table, instances, fields) ==
    [pk \in DOMAIN table |->
        IF \E j \in 1..Len(instances) : instances[j].pk = pk
            THEN LET j == CHOOSE j \in 1..Len(instances) : instances[j].pk = pk
                 IN  [a \in DOMAIN table[pk] |->
                        IF a \in fields THEN instances[j].attrs[a]
                                        ELSE table[pk][a]]
            ELSE table[pk]]

\* A variant that saves every instance and then also issues the statement
persist_both_ways(use_save, done) ==
    [table |-> bulk_update(done.table, done.instances_to_update,
                           done.update_fields),
     issued |-> done.issued
                \o [j \in 1..Len(done.instances_to_update) |->
                        SaveCall(done.instances_to_update[j].pk)]
                \o <<BulkUpdateCall(
                        [j \in 1..Len(done.instances_to_update)
                            |-> done.instances_to_update[j].pk],
                        done.update_fields)>>,
     error |-> ""]

\* if not use_save_on_bulk_update and instances_to_update and update_fields:
\* the single bulk_update statement of direct-write mode
persist(use_save, done) ==
    IF ~use_save /\ Len(done.instances_to_update) > 0
       /\ done.update_fields # {}
        THEN [table |-> bulk_update(done.table, done.instances_to_update,
                                    done.update_fields),
              issued |-> Append(done.issued,
                            BulkUpdateCall(
                                [j \in 1..Len(done.instances_to_update)
                                    |-> done.instances_to_update[j].pk],
                                done.update_fields)),
              error |-> ""]
        ELSE [table |-> done.table, issued |-> done.issued, error |-> ""]

\* Returns [table, issued, error]: the table and the calls issued when update()
\* returns or raises, before the enclosing atomic block is left.
list_serializer_update(v, instances, validated_rows, table, amb) ==
    IF Len(instances) # Len(validated_rows)
        THEN [table |-> table, issued |-> <<>>, error |-> "ValidationError"]
    ELSE
        LET use_save == v.use_save_on_bulk_update
            has_model == Len(instances) > 0
            audit == [has_updated_at |->
                        ~use_save /\ has_model
                        /\ model_has_field(table, "updated_at"),
                      has_updated_by |->
                        ~use_save /\ has_model
                        /\ model_has_field(table, "updated_by")]
            amb_read == [now |-> amb.now,
                         current_user |-> IF audit.has_updated_by
                                             THEN amb.current_user
                                             ELSE NoneValue]
            done == update_loop(use_save, audit, amb_read, instances,
                                validated_rows, 1,
                                [table |-> table, issued |-> <<>>,
                                 instances_to_update |-> <<>>,
                                 update_fields |-> {}, error |-> ""])
        IN  IF done.error # ""
                THEN [table |-> done.table, issued |-> done.issued,
                      error |-> done.error]
                ELSE persist(use_save, done)

----------------------------------------------------------------------------
(* BulkUpdateModelMixin.bulk_update and UpdateModelMixin.update *)

BulkResponse(status, table, calls, reached) ==
    [status |-> status, table |-> table, issued |-> calls, stage |-> reached]

\* Returns the response status, the table afterwards, the calls issued and
\* the last step reached.
bulk_update_view(v, table, http_method, payload, amb) ==
    IF validate_bulk_data(v, payload) # ""
        THEN BulkResponse(400, table, <<>>, "validate_bulk_data")
    ELSE
        LET r == resolve_bulk_update_instances(v.queryset, table, payload)
        IN  IF r.error # ""
                THEN BulkResponse(400, table, <<>>, "resolve_instances")
            ELSE IF validate_bulk_direct_serializer_contract(v) # ""
                THEN BulkResponse(400, table, <<>>, "contract")
            ELSE
                LET checked == list_serializer_is_valid(
                                    v, http_method = "PATCH", payload.rows)
                IN  IF ~checked.ok
                        THEN BulkResponse(400, table, <<>>, "is_valid")
                    ELSE
                        LET u == list_serializer_update(
                                    v, r.instances, checked.validated_data,
                                    table, amb)
                        IN  BulkResponse(
                                IF u.error # "" THEN 400 ELSE 200,
                                atomic_exit(u.table, table, u.error),
                                u.issued, "save")

\* A head of bulk_update that looks the instances up before it checks the
\* envelope
envelope_errors_after_lookup(v, table, payload) ==
    LET r == resolve_bulk_update_instances(
                v.queryset, table,
                [payload EXCEPT !.rows = SelectSeq(@, LAMBDA row :
                                                row.is_dict /\ ~lacks_id(row))])
    IN  [error |-> IF validate_bulk_data(v, payload) # ""
                      THEN validate_bulk_data(v, payload) ELSE r.error,
         index |-> r.index, queried |-> TRUE]

\* What the ValidationError caught by bulk_update carries when the envelope
\* or the instance lookup refuses the payload: its message, the index it is
\* keyed by, and whether the queryset had been evaluated
envelope_errors(v, table, payload) ==
    IF validate_bulk_data(v, payload) # ""
        THEN [error |-> validate_bulk_data(v, payload), index |-> 0,
              queried |-> FALSE]
    ELSE LET r == resolve_bulk_update_instances(v.queryset, table, payload)
         IN  [error |-> r.error, index |-> r.index, queried |-> r.queried]

----------------------------------------------------------------------------
(* BulkCreateModelMixin.bulk_create and CreateModelMixin.create *)

CreateCall(pk) == [call |-> "create", pks |-> <<pk>>, fields |-> {}]

\* ListSerializer.create: child.create(attrs) for every validated row; a
\* column the row does not name takes the model's default
RECURSIVE list_serializer_create(_, _, _)
list_serializer_create(validated_rows, idx, acc) ==
    IF idx > Len(validated_rows) THEN acc
    ELSE
        LET pk == NewPk(acc.table)
            columns == UNION {DOMAIN acc.table[k] : k \in DOMAIN acc.table}
            attrs == [a \in columns |->
                        IF a \in DOMAIN validated_rows[idx]
                            THEN validated_rows[idx][a] ELSE Plain("")]
        IN  list_serializer_create(
                validated_rows, idx + 1,
                [table |-> [k \in DOMAIN acc.table \cup {pk} |->
                                IF k = pk THEN attrs ELSE acc.table[k]],
                 issued |-> Append(acc.issued, CreateCall(pk))])

bulk_create_view(v, table, payload) ==
    IF validate_bulk_data(v, payload) # ""
        THEN BulkResponse(400, table, <<>>, "validate_bulk_data")
    ELSE IF validate_bulk_direct_serializer_contract(v) # ""
        THEN BulkResponse(400, table, <<>>, "contract")
    ELSE
        LET checked == list_serializer_is_valid(v, FALSE, payload.rows)
        IN  IF ~checked.ok
                THEN BulkResponse(400, table, <<>>, "is_valid")
            ELSE
                LET c == list_serializer_create(
                            checked.validated_data, 1,
                            [table |-> table, issued |-> <<>>])
                IN  BulkResponse(201, c.table, c.issued, "save")

----------------------------------------------------------------------------
(* BulkDeleteModelMixin.bulk_delete (views/mixins/bulk.py) *)

\* The target model's rows, each with a nullable cascading foreign key to a
\* row of the same model, and the rows of a join table that cascade from them
Membership(user, group) == [user |-> user, group |-> group]

\* Users 1 and 2 share group 1 and user 2 is also in group 2.
FlatStore ==
    [rows |-> [pk \in {1, 2, 3} |-> [parent |-> NULL]],
     memberships |-> {Membership(1, 1), Membership(2, 1), Membership(2, 2)}]

\* User 2 is a child of user 1 and user 3 a child of user 2.
TreeStore ==
    [rows |-> (1 :> [parent |-> NULL]) @@ (2 :> [parent |-> 1])
              @@ (3 :> [parent |-> 2]),
     memberships |-> {Membership(2, 1)}]

Stores == {FlatStore, TreeStore}

DeleteIds == {IntId(1), IntId(2), IntId(3), IntId(4), StrId(<<1>>)}

DeletePayloads ==
    {[is_list |-> TRUE, rows |-> r] : r \in SeqsUpTo(DeleteIds, MaxRows)}
    \cup {[is_list |-> FALSE, rows |-> <<>>]}

\* "" when the ids are accepted, else the ValidationError
validate_delete_ids(v, ids) ==
    IF ~ids.is_list THEN "not_list"
    ELSE IF Len(ids.rows) = 0 THEN "empty"
    ELSE IF Len(ids.rows) > get_bulk_batch_size(v) THEN "batch_size"
    ELSE ""

\* _get_queryset_data: the pks of the queryset among the ids, and the ids
\* that found no row, both compared as strings
get_queryset_data(v, st, ids) ==
    LET wanted == {to_python(ids[i]) : i \in 1..Len(ids)}
        found_ids == {pk \in v.queryset \cap DOMAIN st.rows : pk \in wanted}
    IN  [found_ids |-> found_ids,
         missing_ids |-> {str(ids[i]) : i \in 1..Len(ids)}
                            \ {Dec(pk) : pk \in found_ids}]

\* The rows of the target model a delete of `roots` removes: the roots and,
\* through the cascading foreign key, their descendants
RECURSIVE collect(_, _)
collect(st, roots) ==
    LET more == {pk \in DOMAIN st.rows : st.rows[pk].parent \in roots}
    IN  IF more \subseteq roots THEN roots ELSE collect(st, roots \cup more)

\* queryset.delete(): removes the collected rows of every model and returns
\* the total and the number of rows removed per model label
queryset_delete(st, pks) ==
    LET gone == collect(st, pks)
        joins == {m \in st.memberships : m.user \in gone}
    IN  [store |-> [rows |-> [pk \in DOMAIN st.rows \ gone |-> st.rows[pk]],
                    memberships |-> st.memberships \ joins],
         total |-> Cardinality(gone) + Cardinality(joins),
         details |-> [User |-> Cardinality(gone),
                      User_groups |-> Cardinality(joins)]]

ResponseData(requested, missing_ids, count) ==
    [requested_count |-> requested, missing_ids |-> missing_ids,
     missing_count |-> Cardinality(missing_ids), count |-> count]

\* Returns the response status and data and the store afterwards.
bulk_delete_view(v, st, ids) ==
    IF validate_delete_ids(v, ids) # ""
        THEN [status |-> 400, data |-> ResponseData(0, {}, 0), store |-> st]
    ELSE
        LET q == get_queryset_data(v, st, ids.rows)
            d == queryset_delete(st, q.found_ids)
        IN  IF q.found_ids # {}
                THEN [status |-> 200,
                      data |-> ResponseData(Len(ids.rows), q.missing_ids,
                                            d.details.User),
                      store |-> d.store]
                ELSE [status |-> 200,
                      data |-> ResponseData(Len(ids.rows), q.missing_ids, 0),
                      store |-> st]

\* No bulk delete in progress
DeleteIdle ==
    /\ store = FlatStore
    /\ store_before = store
    /\ response_data = ResponseData(0, {}, 0)

----------------------------------------------------------------------------
(* The current-user context (current_user/utils.py) and                   *)
(* CurrentUserMiddleware (middlewares/current_user.py)                     *)

MaxDepth == 2           \* deepest nesting of middleware calls in one context

\* A context is what one thread or one asyncio task runs in: a worker thread
\* whose middleware takes __call__, and a task whose middleware, built around
\* a coroutine get_response, takes __acall__.
Contexts == {"thread", "task"}

is_async(c) == c = "task"

\* getattr(request, "user", None)
RequestUsers == {NoneValue, Plain("alice"), Plain("bob")}

\* The ContextVar holds no value in a context until set() is called there.
Missing == [t |-> "missing", v |-> "", items |-> <<>>]

\* ContextVar.set in context c, as a change of the variable's values
var_set_shared(values, c, value) == [k \in DOMAIN values |-> value]

var_set(values, c, value) == [values EXCEPT ![c] = value]

\* _set_current_user: the values afterwards and the token, which remembers
\* the value the variable held
set_current_user(values, c, user) ==
    [values |-> var_set(values, c, user), token |-> [old_value |-> values[c]]]

\* _reset_current_user
reset_current_user(values, c, token) == var_set(values, c, token.old_value)

\* get_current_user: ContextVar.get with default None
get_current_user(values, c) ==
    IF values[c] = Missing THEN NoneValue ELSE values[c]

\* Whether the finally clause of __call__ / __acall__ runs after the
\* handler's outcome
finally_runs_on_return_only(outcome) == outcome = "returned"

finally_runs(outcome) == TRUE

Frame(user, token, seen) ==
    [user |-> user, token |-> token, pc |-> "handling", seen_on_entry |-> seen]

NoCall ==
    [done |-> FALSE, context |-> "thread", value_before |-> Missing,
     value_after |-> Missing, resets |-> 0, outcome |-> ""]

MiddlewareIdle ==
    /\ ctxvar = [c \in Contexts |-> Missing]
    /\ frames = [c \in Contexts |-> <<>>]
    /\ last = NoCall

----------------------------------------------------------------------------
(* A field declaration handed to the relation classifier *)

Cardinalities == {"none", "one_to_many", "many_to_many", "many_to_one", "one_to_one"}

\* What model._meta.get_field(source) returns: a descriptor with one of the
\* four cardinality flags, or none of them for a plain column
Descriptor(cardinality, auto, name) ==
    [exists |-> TRUE, one_to_many |-> cardinality = "one_to_many",
     many_to_many |-> cardinality = "many_to_many",
     many_to_one |-> cardinality = "many_to_one",
     one_to_one |-> cardinality = "one_to_one", auto_created |-> auto,
     field_name |-> name, null |-> FALSE]

Descriptors ==
    {Descriptor(k, a, "owner") : k \in Cardinalities, a \in BOOLEAN}
    \cup {NoModelField}

RelationKinds == {"auto", "generic", "fk", "m2m", "reverse_fk", "reverse_m2m"}

WriteOrders == {"auto", "dependency_first", "root_first"}

RelationWrites ==
    {RelationWrite(k, o, l, "append") :
        k \in RelationKinds, o \in WriteOrders, l \in {NoField, "parent"}}

ClassifierIdle ==
    /\ declared = [relation_write |-> RelationWrite("auto", "auto", NoField, "append"),
                   model_field |-> NoModelField]
    /\ binding = resolve_relation_write(declared.relation_write, declared.model_field)
    /\ first_binding = binding
    /\ bind_calls = 0

----------------------------------------------------------------------------
(* Constructing a configurable related field (mixins/base.py, config.py) *)

\* A relation_write key the caller did not give
Unset == "<unset>"

\* dict.get(key, default)
get(mapping, key, default) ==
    IF mapping[key] = Unset THEN default ELSE mapping[key]

valid_input_formats == {"id", "nested", "slug", "object"}
valid_output_formats == {"id", "str", "serialized", "custom"}
valid_relation_kinds == {"auto", "generic", "fk", "m2m", "reverse_fk", "reverse_m2m"}
valid_write_orders == {"auto", "dependency_first", "root_first"}
valid_sync_modes == {"append", "replace", "sync"}

\* The keyword arguments under analysis; input_formats is None when not given.
ConstructorArgs ==
    [serializer_class : BOOLEAN,
     input_formats_given : BOOLEAN,
     input_formats : SUBSET {"id", "nested", "slug", "object", "xml"},
     output_format : {"id", "str", "serialized", "custom", "yaml"},
     custom_output_callable : BOOLEAN,
     relation_write : [relation_kind : {Unset, "reverse_fk", "bogus"},
                       write_order : {Unset, "root_first", "bogus"},
                       sync_mode : {Unset, "sync", "bogus"}]]

\* The attributes __init__ assigns before it validates
assign_attributes(args) ==
    [serializer_class |-> args.serializer_class,
     input_formats |-> IF args.input_formats_given /\ args.input_formats # {}
                          THEN args.input_formats
                          ELSE {"id", "nested"},
     output_format |-> args.output_format,
     custom_output_callable |-> args.custom_output_callable,
     relation_write |-> args.relation_write]

\* _validate_configuration with the nested-input requirement left out
validate_configuration_without_nested_check(self) ==
    IF ~(self.input_formats \subseteq valid_input_formats)
        THEN "ValueError(input_formats)"
    ELSE IF self.output_format \notin valid_output_formats
        THEN "ValueError(output_format)"
    ELSE IF self.output_format = "serialized" /\ ~self.serializer_class
        THEN "ValueError(serializer_class, serialized)"
    ELSE IF self.output_format = "custom" /\ ~self.custom_output_callable
        THEN "ValueError(custom_output_callable)"
    ELSE ""

\* _validate_configuration: "" or the ValueError it raises
validate_configuration(self) ==
    IF ~(self.input_formats \subseteq valid_input_formats)
        THEN "ValueError(input_formats)"
    ELSE IF self.output_format \notin valid_output_formats
        THEN "ValueError(output_format)"
    ELSE IF self.output_format = "serialized" /\ ~self.serializer_class
        THEN "ValueError(serializer_class, serialized)"
    ELSE IF self.output_format = "custom" /\ ~self.custom_output_callable
        THEN "ValueError(custom_output_callable)"
    ELSE IF "nested" \in self.input_formats /\ ~self.serializer_class
        THEN "ValueError(serializer_class, nested)"
    ELSE IF get(self.relation_write, "relation_kind", "auto") \notin valid_relation_kinds
        THEN "ValueError(relation_kind)"
    ELSE IF get(self.relation_write, "write_order", "auto") \notin valid_write_orders
        THEN "ValueError(write_order)"
    ELSE IF get(self.relation_write, "sync_mode", "append") \notin valid_sync_modes
        THEN "ValueError(sync_mode)"
    ELSE ""

NotConstructed ==
    [done |-> FALSE, error |-> "",
     field |-> [serializer_class |-> FALSE, input_formats |-> {},
                output_format |-> "",
                custom_output_callable |-> FALSE,
                relation_write |-> [relation_kind |-> Unset,
                                    write_order |-> Unset,
                                    sync_mode |-> Unset]]]

ConfigIdle ==
    /\ kwargs = [serializer_class |-> TRUE, input_formats_given |-> FALSE,
                 input_formats |-> {}, output_format |-> "serialized",
                 custom_output_callable |-> FALSE,
                 relation_write |-> [relation_kind |-> Unset,
                                     write_order |-> Unset,
                                     sync_mode |-> Unset]]
    /\ constructed = NotConstructed

----------------------------------------------------------------------------
(* String input to a configurable related field (mixins/conversion.py) *)

\* A Python string: its text, what str.isdigit() says of it and the integer
\* int() makes of it (NULL when int() raises ValueError).
String(text, isdigit, as_int) ==
    [text |-> text, isdigit |-> isdigit, as_int |-> as_int]

\* "1", "7", a superscript two, "x" and "c1"
Strings ==
    {String("1", TRUE, 1), String("7", TRUE, 7), String("sup2", TRUE, NULL),
     String("x", FALSE, NULL), String("c1", FALSE, NULL)}

\* The related model's rows: `label` is the value of the model's slug
\* attribute when it has one and of its name attribute otherwise.
Entry(label, code) == [label |-> label, code |-> code]

\* A model with a slug: one row's slug looks numeric, and one row's code is
\* another row's slug.
SlugCatalog ==
    [has_slug |-> TRUE,
     rows |-> (1 :> Entry("x", "c1")) @@ (2 :> Entry("7", "x"))]

\* A model without slug, looked up by name; names are not unique.
NameCatalog ==
    [has_slug |-> FALSE,
     rows |-> (1 :> Entry("7", "c1")) @@ (2 :> Entry("7", "c2"))]

Catalogs == {SlugCatalog, NameCatalog}

\* __init__: slug_lookup_field or lookup_field
FinderFor(formats, lookup_field, slug_lookup_field, catalog) ==
    [input_formats |-> formats, lookup_field |-> lookup_field,
     slug_lookup_field |-> IF slug_lookup_field = NoField THEN lookup_field
                                                         ELSE slug_lookup_field,
     queryset |-> catalog]

\* The rows queryset.get(**{attribute: data}) compares equal to data; an
\* integer column raises ValueError for a string int() cannot read.
Matches(catalog, attribute, data) ==
    CASE attribute = "pk" ->
            {pk \in DOMAIN catalog.rows : pk = data.as_int}
      [] attribute = "code" ->
            {pk \in DOMAIN catalog.rows : catalog.rows[pk].code = data.text}
      [] OTHER ->
            {pk \in DOMAIN catalog.rows : catalog.rows[pk].label = data.text}

Looked(pk, raises) == [pk |-> pk, error |-> raises]

\* queryset.get: the row, DoesNotExist, MultipleObjectsReturned or ValueError
queryset_get(catalog, attribute, data) ==
    LET m == Matches(catalog, attribute, data)
    IN  IF attribute = "pk" /\ data.as_int = NULL THEN Looked(NULL, "ValueError")
        ELSE IF m = {} THEN Looked(NULL, "DoesNotExist")
        ELSE IF Cardinality(m) > 1 THEN Looked(NULL, "MultipleObjectsReturned")
        ELSE Looked(CHOOSE pk \in m : TRUE, "")

ValidationErrors == {"ValidationError(does_not_exist)", "ValidationError(incorrect_type)"}

\* _handle_id_input on a string
handle_string_id_input(self, data) ==
    LET r == queryset_get(self.queryset, self.lookup_field, data)
    IN  IF r.error = "DoesNotExist"
            THEN Looked(NULL, "ValidationError(does_not_exist)")
        ELSE IF r.error = "ValueError"
            THEN Looked(NULL, "ValidationError(incorrect_type)")
        ELSE r

\* _handle_slug_input
handle_slug_input(self, data) ==
    LET slug_field == IF self.queryset.has_slug THEN "slug" ELSE "name"
        r == queryset_get(self.queryset, slug_field, data)
    IN  IF r.error = "DoesNotExist"
            THEN Looked(NULL, "ValidationError(does_not_exist)")
            ELSE r

is_numeric_string(value) == value.isdigit

\* _get_string_resolution_handlers
get_string_resolution_handlers(data) ==
    IF is_numeric_string(data) THEN <<"id", "slug">> ELSE <<"slug", "id">>

handle(handler, self, data) ==
    IF handler = "id" THEN handle_string_id_input(self, data)
                      ELSE handle_slug_input(self, data)

Outcome(r, lookups) == [pk |-> r.pk, error |-> r.error, lookups |-> lookups]

\* The except clause re-raising the second handler's error
surface_second_error(first, second) == second

\* except serializers.ValidationError: raise first_error
surface(first, second) ==
    IF second.error \in ValidationErrors THEN first ELSE second

\* _handle_string_id_or_slug_input
handle_string_id_or_slug_input(self, data) ==
    LET handlers == get_string_resolution_handlers(data)
        first == handle(handlers[1], self, data)
        second == handle(handlers[2], self, data)
    IN  IF first.error \notin ValidationErrors
            THEN Outcome(first, <<handlers[1]>>)
        ELSE IF second.error = ""
            THEN Outcome(second, handlers)
        ELSE Outcome(surface(first, second), handlers)

\* to_internal_value for a non-empty string
string_to_internal_value(self, data) ==
    IF "slug" \in self.input_formats /\ "id" \in self.input_formats
        THEN handle_string_id_or_slug_input(self, data)
    ELSE IF "slug" \in self.input_formats
        THEN Outcome(handle_slug_input(self, data), <<"slug">>)
    ELSE IF "id" \in self.input_formats
        THEN Outcome(handle_string_id_input(self, data), <<"id">>)
    ELSE Outcome(Looked(NULL, "ValidationError(incorrect_type)"), <<>>)

NotConverted == [done |-> FALSE, pk |-> NULL, error |-> "", lookups |-> <<>>]

LookupIdle ==
    /\ finder = FinderFor({"id", "slug"}, "pk", NoField, SlugCatalog)
    /\ text_input = String("1", TRUE, 1)
    /\ converted = NotConverted

----------------------------------------------------------------------------
(* VersionMixin.save (models/content.py) *)

MaxVersion == 3         \* no save is begun on a row that reached this version

Savers == {"a", "b"}

RowImage(version, body) == [version |-> version, body |-> body]

\* The row lock when no transaction holds it
Unlocked == ""

\* A variant whose statement does not test the version.
filter_update_any_version(row, expected_version) ==
    [updated_rows |-> 1, row |-> [row EXCEPT !.version = @ + 1]]

\* objects.filter(pk=self.pk, version=expected_version)
\*        .update(version=F("version") + 1)
\* on the row as the statement finds it: the number of rows updated and the
\* row afterwards
filter_update(row, expected_version) ==
    IF row.version = expected_version
        THEN [updated_rows |-> 1, row |-> [row EXCEPT !.version = @ + 1]]
        ELSE [updated_rows |-> 0, row |-> row]

\* Model.save() of a persisted instance: every field is written from memory
model_save(copy) == RowImage(copy.version, copy.body)

NoSaver ==
    [pc |-> "idle", copy |-> RowImage(0, ""), skip |-> FALSE, expected |-> 0,
     before |-> RowImage(0, ""), after |-> RowImage(0, ""), outcome |-> ""]

\* One persisted row at version 1, nobody holding a copy of it
VersionIdle ==
    /\ versioned = [row |-> RowImage(1, "initial"),
                    pending |-> RowImage(1, "initial"),
                    lock |-> Unlocked, skipped |-> FALSE]
    /\ savers = [s \in Savers |-> NoSaver]

----------------------------------------------------------------------------
(* File import (views/mixins/import_export.py) *)

\* A row of the table: one that existed before the import, or the row
\* created from line n of the file
OldRecord(n) == [origin |-> "old", n |-> n]
FileRecord(n) == [origin |-> "file", n |-> n]

\* request.data flags as sent on the form; "" when the key is absent
FlagValues == {"", "true", "false", "perhaps"}

\* parse_bool: TRUE, FALSE or the ValueError
parse_bool(value) ==
    IF value \in {"true", "1", "yes", "y", "on"} THEN "True"
    ELSE IF value \in {"false", "0", "no", "n", "off", ""} THEN "False"
    ELSE "ValueError"

\* The uploaded file: whether its header matches the template, and for each
\* line whether the row can be created
Uploads ==
    [append_data : FlagValues, replace_data : {"", "true", "perhaps"},
     header_ok : BOOLEAN,
     lines : SeqsUpTo({"ok", "bad"}, MaxRows)]

Failed(lines) == {i \in 1..Len(lines) : lines[i] = "bad"}

\* FileImportService.import_file: raises ImportValidationError on a header
\* that does not match, else creates a row per good line and reports the others
\* as failed
service_import_file(table, file) ==
    IF ~file.header_ok
        THEN [raised |-> TRUE, table |-> table, created |-> 0, failed |-> 0]
        ELSE [raised |-> FALSE,
              table |-> table \cup {FileRecord(i) :
                            i \in (1..Len(file.lines)) \ Failed(file.lines)},
              created |-> Len(file.lines) - Cardinality(Failed(file.lines)),
              failed |-> Cardinality(Failed(file.lines))]

ImportResponse(status, success, operation, deleted_count, created, failed) ==
    [status |-> status, success |-> success, operation |-> operation,
     deleted_count |-> deleted_count, created |-> created, failed |-> failed]

\* Leaving the atomic block with every write kept
atomic_block_exit_committing(after, saved, needs_rollback) == after

\* Leaving `with transaction.atomic()`: rolled back when an exception leaves
\* the block or set_rollback(True) was called inside it
atomic_block_exit(after, saved, needs_rollback) ==
    IF needs_rollback THEN saved ELSE after

\* The replace branch of import_file
replace_import(table, file) ==
    LET deleted_count == Cardinality(table)
        r == service_import_file({}, file)
    IN  IF r.raised
            THEN [table |-> atomic_block_exit(r.table, table, TRUE),
                  response |-> ImportResponse(422, FALSE, "", -1, 0, 0)]
        ELSE IF r.failed > 0
            THEN [table |-> atomic_block_exit(r.table, table, TRUE),
                  response |-> ImportResponse(422, FALSE, "replace", 0,
                                              r.created, r.failed)]
        ELSE [table |-> atomic_block_exit(r.table, table, FALSE),
              response |-> ImportResponse(201, TRUE, "replace", deleted_count,
                                          r.created, 0)]

\* The append branch of import_file
append_import(table, file) ==
    LET r == service_import_file(table, file)
    IN  IF r.raised
            THEN [table |-> r.table,
                  response |-> ImportResponse(422, FALSE, "", -1, 0, 0)]
            ELSE [table |-> r.table,
                  response |-> ImportResponse(
                        IF r.failed = 0 THEN 201
                        ELSE IF r.created > 0 THEN 207 ELSE 422,
                        TRUE, "append", 0, r.created, r.failed)]

\* FileImportMixin.import_file once a file is present
import_file(table, file) ==
    LET append_data == parse_bool(file.append_data)
        replace_data == parse_bool(file.replace_data)
        refused == [table |-> table,
                    response |-> ImportResponse(400, FALSE, "", -1, 0, 0)]
    IN  IF "ValueError" \in {append_data, replace_data} THEN refused
        ELSE IF append_data = "False" /\ replace_data = "False" THEN refused
        ELSE IF append_data = "True" /\ replace_data = "True" THEN refused
        ELSE IF replace_data = "True" THEN replace_import(table, file)
        ELSE append_import(table, file)

ImportIdle ==
    /\ records = {OldRecord(1)}
    /\ records_before = records
    /\ upload = [append_data |-> "", replace_data |-> "", header_ok |-> TRUE,
                 lines |-> <<>>]
    /\ ipc = "idle"
    /\ imported = ImportResponse(0, FALSE, "", -1, 0, 0)

NoRejection == [error |-> "", index |-> 0, queried |-> FALSE]

EnvelopeIdle == rejection = NoRejection

OtherIdle ==
    /\ ConfigIdle
    /\ LookupIdle
    /\ ImportIdle
    /\ EnvelopeIdle
    /\ VersionIdle

\* No bulk request in progress
BulkIdle ==
    /\ view \in {v \in Views : ~v.use_save_on_bulk_update /\ v.bulk_batch_size = NULL}
    /\ users = InitialUsers
    /\ users_before = users
    /\ request_data = [is_list |-> TRUE, rows |-> <<>>]
    /\ method = "PATCH"
    /\ bpc = "idle"
    /\ response = 0
    /\ issued = <<>>
    /\ ambient = [now |-> Plain("now"), current_user |-> NoneValue]
    /\ raised = ""
    /\ stage = ""

\* No serializer request in progress
SaveIdle ==
    /\ pc = "idle"
    /\ request = [op |-> "create", pk |-> NULL, parent_valid |-> TRUE,
                  parent_fails |-> FALSE, items |-> <<>>]
    /\ validated_data = Absent
    /\ root_first_values = Absent
    /\ tickets = <<>>
    /\ instance = NULL
    /\ before = db
    /\ savepoint = db
    /\ error = ""

Init ==
    /\ cfg \in {BoundField(decl) : decl \in Declarations}
    /\ db \in InitialDbs
    /\ SaveIdle
    /\ DeleteIdle
    /\ MiddlewareIdle
    /\ OtherIdle
    /\ ClassifierIdle
    /\ BulkIdle

Next ==
    \/ Construct
    \/ IsValid
    \/ SaveEnter
    \/ ExtractRootFirst
    \/ ResolveDependencyFirst
    \/ ParentWrite
    \/ ApplyRootFirst
    \/ SaveExit

Spec == Init /\ [][Next]_vars

----------------------------------------------------------------------------
(* The bulk update endpoint *)

\* A PUT or PATCH arrives at bulk-update
Receive ==
    /\ bpc = "idle"
    /\ request_data' \in Payloads
    /\ method' \in {"PUT", "PATCH"}
    /\ users_before' = users
    /\ bpc' = "received"
    /\ UNCHANGED <<view, users, response, issued, ambient, raised, stage>>
    /\ UNCHANGED outsideBulk

\* BulkUpdateModelMixin.bulk_update handles it
BulkUpdate ==
    /\ bpc = "received"
    /\ LET r == bulk_update_view(view, users, method, request_data, ambient)
       IN  /\ users' = r.table
           /\ response' = r.status
           /\ issued' = r.issued
           /\ stage' = r.stage
    /\ bpc' = "responded"
    /\ UNCHANGED <<view, users_before, request_data, method, ambient, raised>>
    /\ UNCHANGED outsideBulk

InitBulk ==
    /\ cfg = BoundField(Declaration(FALSE, FALSE,
                RelationWrite("auto", "auto", NoField, "append"), ForwardFk))
    /\ db = SparseDb
    /\ SaveIdle
    /\ DeleteIdle
    /\ MiddlewareIdle
    /\ OtherIdle
    /\ ClassifierIdle
    /\ view \in Views
    /\ users = InitialUsers
    /\ users_before = users
    /\ request_data = [is_list |-> TRUE, rows |-> <<>>]
    /\ method = "PATCH"
    /\ bpc = "idle"
    /\ response = 0
    /\ issued = <<>>
    /\ ambient = [now |-> Plain("now"), current_user |-> NoneValue]
    /\ raised = ""
    /\ stage = ""

NextBulk ==
    \/ Receive
    \/ BulkUpdate

SpecBulk == InitBulk /\ [][NextBulk]_vars

----------------------------------------------------------------------------
(* Bulk create and bulk update over differently declared serializers *)

\* What a serializer may declare besides its plain fields
RelationFields ==
    {[name |-> "groups", read_only |-> r, kind |-> k] :
        r \in BOOLEAN, k \in {"configurable", "nested"}}

ContractViews ==
    {[v EXCEPT !.bulk_direct_serializers_only = only,
               !.serializer_fields = @ \cup extra] :
        v \in {w \in Views : ~w.use_save_on_bulk_update
                             /\ w.bulk_batch_size = NULL},
        only \in BOOLEAN,
        extra \in {{}} \cup {{f} : f \in RelationFields}}

ContractRows ==
    {[is_dict |-> TRUE, id |-> IntId(i), fields |-> f] :
        i \in {1, 2, 4},
        f \in {[email |-> Plain("a@x")],
               [email |-> Plain("a@x"), username |-> Plain("u")]}}

ContractPayloads ==
    {[is_list |-> TRUE, rows |-> r] : r \in SeqsUpTo(ContractRows, MaxRows)}
    \cup {[is_list |-> FALSE, rows |-> <<>>]}

\* A POST to bulk-create or a PUT or PATCH to bulk-update arrives
ContractReceive ==
    /\ bpc = "idle"
    /\ request_data' \in ContractPayloads
    /\ method' \in {"POST", "PUT", "PATCH"}
    /\ users_before' = users
    /\ bpc' = "received"
    /\ UNCHANGED <<view, users, response, issued, ambient, raised, stage>>
    /\ UNCHANGED outsideBulk

\* BulkCreateModelMixin.bulk_create or BulkUpdateModelMixin.bulk_update
ContractHandle ==
    /\ bpc = "received"
    /\ LET r == IF method = "POST"
                    THEN bulk_create_view(view, users, request_data)
                    ELSE bulk_update_view(view, users, method, request_data,
                                          ambient)
       IN  /\ users' = r.table
           /\ response' = r.status
           /\ issued' = r.issued
           /\ stage' = r.stage
    /\ bpc' = "responded"
    /\ UNCHANGED <<view, users_before, request_data, method, ambient, raised>>
    /\ UNCHANGED outsideBulk

InitContract ==
    /\ cfg = BoundField(Declaration(FALSE, FALSE,
                RelationWrite("auto", "auto", NoField, "append"), ForwardFk))
    /\ db = SparseDb
    /\ SaveIdle
    /\ DeleteIdle
    /\ MiddlewareIdle
    /\ OtherIdle
    /\ ClassifierIdle
    /\ view \in ContractViews
    /\ users = InitialUsers
    /\ users_before = users
    /\ request_data = [is_list |-> TRUE, rows |-> <<>>]
    /\ method = "PATCH"
    /\ bpc = "idle"
    /\ response = 0
    /\ issued = <<>>
    /\ ambient = [now |-> Plain("now"), current_user |-> NoneValue]
    /\ raised = ""
    /\ stage = ""

NextContract ==
    \/ ContractReceive
    \/ ContractHandle

SpecContract == InitContract /\ [][NextContract]_vars

----------------------------------------------------------------------------
(* BulkUpdateListSerializer.update called on resolved instances *)

\* Tables of a model with a relation column, without and with audit columns
PlainAccounts ==
    [pk \in {1, 2, 3} |->
        [email |-> Plain("old@x"), profile |-> Plain("p0")]]

AuditedAccounts ==
    [pk \in {1, 2, 3} |->
        [email |-> Plain("old@x"), profile |-> Plain("p0"),
         updated_at |-> Plain("then"), updated_by |-> Plain("carol")]]

\* What a child serializer can hand over as one validated attribute
ValidatedValues ==
    [email |-> {Plain("a@x")},
     profile |-> {Plain("p1"), DeferredOperation,
                  ListValue(<<Plain("p1"), DeferredOperation>>)},
     updated_at |-> {Plain("given")},
     updated_by |-> {Plain("bob")}]

ValidatedItems(table) ==
    LET columns == UNION {DOMAIN table[pk] : pk \in DOMAIN table}
        values == UNION {ValidatedValues[c] : c \in columns}
    IN  UNION {{g \in [names -> values] :
                    \A n \in names : g[n] \in ValidatedValues[n]} :
                names \in SUBSET columns}

\* The instances handed to update(): the first n accounts, in ascending or
\* in descending order of pk
InstanceOrders(n) ==
    {[i \in 1..n |-> i], [i \in 1..n |-> n + 1 - i]}

ListCalls(table) ==
    UNION {{[is_list |-> TRUE,
             rows |-> [i \in 1..n |->
                        [is_dict |-> TRUE, id |-> IntId(order[i]),
                         fields |-> items[i]]]] :
                order \in InstanceOrders(n),
                items \in [1..n -> ValidatedItems(table)]} :
            n \in 1..MaxRows}

\* serializer.save() reaches update(instances, validated_data)
ListCall ==
    /\ bpc = "idle"
    /\ request_data' \in ListCalls(users)
    /\ users_before' = users
    /\ bpc' = "called"
    /\ UNCHANGED <<view, users, method, response, issued, ambient, raised,
                   stage>>
    /\ UNCHANGED outsideBulk

\* BulkUpdateListSerializer.update under @transaction.atomic
ListUpdate ==
    /\ bpc = "called"
    /\ LET rows == request_data.rows
           u == list_serializer_update(
                    view,
                    [i \in 1..Len(rows) |->
                        Instance(to_python(rows[i].id), users)],
                    [i \in 1..Len(rows) |-> rows[i].fields],
                    users, ambient)
       IN  /\ users' = atomic_exit(u.table, users, u.error)
           /\ issued' = u.issued
           /\ raised' = u.error
    /\ bpc' = "returned"
    /\ UNCHANGED <<view, users_before, request_data, method, response, ambient,
                   stage>>
    /\ UNCHANGED outsideBulk

InitList ==
    /\ cfg = BoundField(Declaration(FALSE, FALSE,
                RelationWrite("auto", "auto", NoField, "append"), ForwardFk))
    /\ db = SparseDb
    /\ SaveIdle
    /\ DeleteIdle
    /\ MiddlewareIdle
    /\ OtherIdle
    /\ ClassifierIdle
    /\ view \in {v \in Views : v.bulk_batch_size = NULL}
    /\ users \in {PlainAccounts, AuditedAccounts}
    /\ users_before = users
    /\ request_data = [is_list |-> TRUE, rows |-> <<>>]
    /\ method = "PATCH"
    /\ bpc = "idle"
    /\ response = 0
    /\ issued = <<>>
    /\ ambient \in {[now |-> Plain("now"), current_user |-> u] :
                        u \in {NoneValue, Plain("alice")}}
    /\ raised = ""
    /\ stage = ""

NextList ==
    \/ ListCall
    \/ ListUpdate

SpecList == InitList /\ [][NextList]_vars

----------------------------------------------------------------------------
(* The bulk delete endpoint *)

\* A DELETE arrives at bulk_delete
DeleteReceive ==
    /\ bpc = "idle"
    /\ request_data' \in DeletePayloads
    /\ method' = "DELETE"
    /\ store_before' = store
    /\ bpc' = "received"
    /\ UNCHANGED <<view, users, users_before, response, issued, ambient,
                   raised, stage, store, response_data>>
    /\ UNCHANGED outsideDelete

\* BulkDeleteModelMixin.bulk_delete handles it
BulkDelete ==
    /\ bpc = "received"
    /\ LET r == bulk_delete_view(view, store, request_data)
       IN  /\ store' = r.store
           /\ response' = r.status
           /\ response_data' = r.data
    /\ bpc' = "responded"
    /\ UNCHANGED <<view, users, users_before, request_data, method, issued,
                   ambient, raised, stage, store_before>>
    /\ UNCHANGED outsideDelete

InitDelete ==
    /\ cfg = BoundField(Declaration(FALSE, FALSE,
                RelationWrite("auto", "auto", NoField, "append"), ForwardFk))
    /\ db = SparseDb
    /\ SaveIdle
    /\ MiddlewareIdle
    /\ OtherIdle
    /\ ClassifierIdle
    /\ view \in {v \in Views : ~v.use_save_on_bulk_update}
    /\ users = InitialUsers
    /\ users_before = users
    /\ request_data = [is_list |-> TRUE, rows |-> <<>>]
    /\ method = "PATCH"
    /\ bpc = "idle"
    /\ response = 0
    /\ issued = <<>>
    /\ ambient = [now |-> Plain("now"), current_user |-> NoneValue]
    /\ raised = ""
    /\ stage = ""
    /\ store \in Stores
    /\ store_before = store
    /\ response_data = ResponseData(0, {}, 0)

NextDelete ==
    \/ DeleteReceive
    \/ BulkDelete

SpecDelete == InitDelete /\ [][NextDelete]_vars

----------------------------------------------------------------------------
(* Requests passing through CurrentUserMiddleware *)

Top(c) == frames[c][Len(frames[c])]

\* __call__ / __acall__ up to the handler: a request enters the middleware
\* in context c, either from the server or from inside a handler
MiddlewareCall(c) ==
    /\ Len(frames[c]) < MaxDepth
    /\ frames[c] # <<>> => Top(c).pc = "handling"
    /\ \E user \in RequestUsers :
        LET s == set_current_user(ctxvar, c, user)
        IN  /\ ctxvar' = s.values
            /\ frames' = [frames EXCEPT ![c] =
                    Append(@, Frame(user, s.token,
                                    get_current_user(s.values, c)))]
    /\ UNCHANGED <<last, saveVars, bulkVars, deleteVars, classifierVars, otherVars>>

\* get_response(request) returns or raises
HandlerEnds(c) ==
    /\ frames[c] # <<>>
    /\ Top(c).pc = "handling"
    /\ \E outcome \in {"returned", "raised"} :
        frames' = [frames EXCEPT ![c][Len(frames[c])].pc = outcome]
    /\ UNCHANGED <<ctxvar, last, saveVars, bulkVars, deleteVars, classifierVars, otherVars>>

\* The finally clause, then the response or the exception leaves the call
MiddlewareExit(c) ==
    /\ frames[c] # <<>>
    /\ Top(c).pc \in {"returned", "raised"}
    /\ LET f == Top(c)
           runs == finally_runs(f.pc)
           after == IF runs THEN reset_current_user(ctxvar, c, f.token)
                            ELSE ctxvar
       IN  /\ ctxvar' = after
           /\ last' = [done |-> TRUE, context |-> c,
                       value_before |-> f.token.old_value,
                       value_after |-> after[c],
                       resets |-> IF runs THEN 1 ELSE 0, outcome |-> f.pc]
    /\ frames' = [frames EXCEPT ![c] = SubSeq(@, 1, Len(@) - 1)]
    /\ UNCHANGED <<saveVars, bulkVars, deleteVars, classifierVars, otherVars>>

Quiet ==
    /\ cfg = BoundField(Declaration(FALSE, FALSE,
                RelationWrite("auto", "auto", NoField, "append"), ForwardFk))
    /\ db = SparseDb
    /\ SaveIdle
    /\ BulkIdle
    /\ DeleteIdle

InitMiddleware ==
    /\ Quiet
    /\ MiddlewareIdle
    /\ OtherIdle
    /\ ClassifierIdle

NextMiddleware ==
    \/ \E c \in Contexts : MiddlewareCall(c)
    \/ \E c \in Contexts : HandlerEnds(c)
    \/ \E c \in Contexts : MiddlewareExit(c)

SpecMiddleware == InitMiddleware /\ [][NextMiddleware]_vars

----------------------------------------------------------------------------
(* Binding a declared field: bind() calls _resolve_relation_write *)

MaxBinds == 2           \* calls of _resolve_relation_write that are counted

Bind ==
    /\ LET r == resolve_relation_write(declared.relation_write,
                                       declared.model_field)
       IN  /\ binding' = r
           /\ first_binding' = IF bind_calls = 0 THEN r ELSE first_binding
    /\ bind_calls' = IF bind_calls < MaxBinds THEN bind_calls + 1 ELSE bind_calls
    /\ UNCHANGED <<declared, saveVars, bulkVars, deleteVars, middlewareVars, otherVars>>

InitClassifier ==
    /\ Quiet
    /\ MiddlewareIdle
    /\ OtherIdle
    /\ declared \in [relation_write : RelationWrites, model_field : Descriptors]
    /\ binding = resolve_relation_write(RelationWrite("auto", "auto", NoField, "append"),
                                        NoModelField)
    /\ first_binding = binding
    /\ bind_calls = 0

NextClassifier == Bind

SpecClassifier == InitClassifier /\ [][NextClassifier]_vars

----------------------------------------------------------------------------
(* Field construction *)

earlierVars == <<saveVars, bulkVars, deleteVars, middlewareVars, classifierVars>>

\* ConfigurableRelatedFieldMixin.__init__
FieldInit ==
    /\ ~constructed.done
    /\ LET self == assign_attributes(kwargs)
       IN  constructed' = [done |-> TRUE, error |-> validate_configuration(self),
                           field |-> self]
    /\ UNCHANGED <<kwargs, earlierVars, lookupVars, importVars, envelopeVars, versionVars>>

InitConfig ==
    /\ Quiet
    /\ MiddlewareIdle
    /\ ClassifierIdle
    /\ VersionIdle
    /\ kwargs \in ConstructorArgs
    /\ constructed = NotConstructed
    /\ LookupIdle
    /\ ImportIdle
    /\ EnvelopeIdle

NextConfig == FieldInit

SpecConfig == InitConfig /\ [][NextConfig]_vars

----------------------------------------------------------------------------
(* Converting string input *)

\* to_internal_value(data) for a string
ToInternalValue ==
    /\ ~converted.done
    /\ LET r == string_to_internal_value(finder, text_input)
       IN  converted' = [done |-> TRUE, pk |-> r.pk, error |-> r.error,
                         lookups |-> r.lookups]
    /\ UNCHANGED <<finder, text_input, earlierVars, configVars, importVars,
                   envelopeVars, versionVars>>

InitLookup ==
    /\ Quiet
    /\ MiddlewareIdle
    /\ ClassifierIdle
    /\ VersionIdle
    /\ ConfigIdle
    /\ \E formats \in {{"id", "slug"}, {"slug"}, {"id"}},
          lookup_field \in {"pk", "code"},
          slug_lookup_field \in {NoField, "code"},
          catalog \in Catalogs :
            finder = FinderFor(formats, lookup_field, slug_lookup_field, catalog)
    /\ text_input \in Strings
    /\ converted = NotConverted
    /\ ImportIdle
    /\ EnvelopeIdle

NextLookup == ToInternalValue

SpecLookup == InitLookup /\ [][NextLookup]_vars

----------------------------------------------------------------------------
(* The file import endpoint *)

\* A POST with a file arrives at import_file
ImportReceive ==
    /\ ipc = "idle"
    /\ upload' \in Uploads
    /\ records_before' = records
    /\ ipc' = "received"
    /\ UNCHANGED <<records, imported, earlierVars, configVars, lookupVars,
                   envelopeVars, versionVars>>

\* FileImportMixin.import_file handles it
ImportFile ==
    /\ ipc = "received"
    /\ LET r == import_file(records, upload)
       IN  /\ records' = r.table
           /\ imported' = r.response
    /\ ipc' = "responded"
    /\ UNCHANGED <<records_before, upload, earlierVars, configVars, lookupVars,
                   envelopeVars, versionVars>>

InitImport ==
    /\ Quiet
    /\ MiddlewareIdle
    /\ ClassifierIdle
    /\ VersionIdle
    /\ ConfigIdle
    /\ LookupIdle
    /\ EnvelopeIdle
    /\ records \in {{}, {OldRecord(1)}, {OldRecord(1), OldRecord(2)}}
    /\ records_before = records
    /\ upload = [append_data |-> "", replace_data |-> "", header_ok |-> TRUE,
                 lines |-> <<>>]
    /\ ipc = "idle"
    /\ imported = ImportResponse(0, FALSE, "", -1, 0, 0)

NextImport ==
    \/ ImportReceive
    \/ ImportFile

SpecImport == InitImport /\ [][NextImport]_vars

----------------------------------------------------------------------------
(* The bulk update endpoint over malformed payloads *)

\* Rows with and without a usable id, and an element that is not an object
EnvelopeRows ==
    {[is_dict |-> TRUE, id |-> i, fields |-> [n \in {"email"} |-> Plain("a@x")]] :
        i \in {IntId(1), IntId(4), StrId(<<1>>), StrId(<<>>), NoneId, AbsentId}}
    \cup {[is_dict |-> FALSE, id |-> AbsentId, fields |-> <<>>]}

EnvelopePayloads ==
    {[is_list |-> TRUE, rows |-> r] : r \in SeqsUpTo(EnvelopeRows, MaxRows)}
    \cup {[is_list |-> FALSE, rows |-> <<>>]}

EnvelopeReceive ==
    /\ bpc = "idle"
    /\ request_data' \in EnvelopePayloads
    /\ method' = "PATCH"
    /\ users_before' = users
    /\ bpc' = "received"
    /\ UNCHANGED <<view, users, response, issued, ambient, raised, stage>>
    /\ UNCHANGED outsideBulk

\* BulkUpdateModelMixin.bulk_update handles it; a ValidationError becomes the
\* error response
EnvelopeUpdate ==
    /\ bpc = "received"
    /\ LET r == bulk_update_view(view, users, method, request_data, ambient)
       IN  /\ users' = r.table
           /\ response' = r.status
           /\ issued' = r.issued
           /\ stage' = r.stage
           /\ rejection' = IF r.stage \in {"validate_bulk_data", "resolve_instances"}
                              THEN envelope_errors(view, users, request_data)
                              ELSE NoRejection
    /\ bpc' = "responded"
    /\ UNCHANGED <<view, users_before, request_data, method, ambient, raised>>
    /\ UNCHANGED <<saveVars, deleteVars, middlewareVars, classifierVars,
                   configVars, lookupVars, importVars,
                   versionVars>>

InitEnvelope ==
    /\ cfg = BoundField(Declaration(FALSE, FALSE,
                RelationWrite("auto", "auto", NoField, "append"), ForwardFk))
    /\ db = SparseDb
    /\ SaveIdle
    /\ DeleteIdle
    /\ MiddlewareIdle
    /\ ClassifierIdle
    /\ OtherIdle
    /\ view \in Views
    /\ users = InitialUsers
    /\ users_before = users
    /\ request_data = [is_list |-> TRUE, rows |-> <<>>]
    /\ method = "PATCH"
    /\ bpc = "idle"
    /\ response = 0
    /\ issued = <<>>
    /\ ambient = [now |-> Plain("now"), current_user |-> NoneValue]
    /\ raised = ""
    /\ stage = ""

NextEnvelope ==
    \/ EnvelopeReceive
    \/ EnvelopeUpdate

SpecEnvelope == InitEnvelope /\ [][NextEnvelope]_vars

----------------------------------------------------------------------------
(* Writers of one versioned row *)

beforeVersion == <<earlierVars, configVars, lookupVars, importVars, envelopeVars>>

\* obj = Model.objects.get(pk=...), then obj.body = <the writer's text>: the
\* copy holds the committed version
Load(s) ==
    /\ savers[s].pc \in {"idle", "done"}
    /\ savers' = [savers EXCEPT ![s] =
                    [NoSaver EXCEPT !.pc = "loaded",
                                    !.copy = RowImage(versioned.row.version, s)]]
    /\ UNCHANGED versioned
    /\ UNCHANGED beforeVersion

\* obj.save(skip_version_increment=skip) up to its first statement.  A
\* statement on a row another transaction has written waits for that
\* transaction to end.  With skip the plain Model.save() is the whole call;
\* without it the conditional UPDATE either matches no row, and
\* VersionConflictError leaves the atomic block, or takes the row.
SaveBegin(s) ==
    /\ savers[s].pc = "loaded"
    /\ versioned.lock = Unlocked
    /\ versioned.row.version < MaxVersion
    /\ \E skip \in BOOLEAN :
        LET me == [savers[s] EXCEPT !.skip = skip,
                                    !.expected = savers[s].copy.version,
                                    !.before = versioned.row]
            u == filter_update(versioned.row, savers[s].copy.version)
        IN  IF skip
                THEN /\ versioned' = [versioned EXCEPT
                                        !.row = model_save(me.copy),
                                        !.pending = model_save(me.copy),
                                        !.skipped = TRUE]
                     /\ savers' = [savers EXCEPT ![s] =
                                    [me EXCEPT !.pc = "done",
                                               !.outcome = "saved",
                                               !.after = model_save(me.copy)]]
            ELSE IF u.updated_rows = 0
                THEN /\ savers' = [savers EXCEPT ![s] =
                                    [me EXCEPT !.pc = "done",
                                               !.outcome = "VersionConflictError",
                                               !.after = versioned.row]]
                     /\ UNCHANGED versioned
            ELSE /\ versioned' = [versioned EXCEPT !.pending = u.row,
                                                   !.lock = s]
                 /\ savers' = [savers EXCEPT ![s] =
                                    [me EXCEPT !.pc = "incremented"]]
    /\ UNCHANGED beforeVersion

\* self.version = expected_version + 1; super().save(): every field is
\* written inside the transaction, or the statement fails and the atomic
\* block rolls back
SuperSave(s) ==
    /\ savers[s].pc = "incremented"
    /\ \E fails \in BOOLEAN :
        LET copy == [savers[s].copy EXCEPT !.version = savers[s].expected + 1]
        IN  IF fails
                THEN /\ versioned' = [versioned EXCEPT !.pending = versioned.row,
                                                       !.lock = Unlocked]
                     /\ savers' = [savers EXCEPT ![s].pc = "done",
                                                 ![s].copy = copy,
                                                 ![s].outcome = "DatabaseError",
                                                 ![s].after = versioned.row]
                ELSE /\ versioned' = [versioned EXCEPT !.pending = model_save(copy)]
                     /\ savers' = [savers EXCEPT ![s].pc = "written",
                                                 ![s].copy = copy]
    /\ UNCHANGED beforeVersion

\* leaving transaction.atomic() normally: commit
Commit(s) ==
    /\ savers[s].pc = "written"
    /\ versioned' = [versioned EXCEPT !.row = versioned.pending, !.lock = Unlocked]
    /\ savers' = [savers EXCEPT ![s].pc = "done",
                                ![s].outcome = "saved",
                                ![s].after = versioned.pending]
    /\ UNCHANGED beforeVersion

InitVersion ==
    /\ Quiet
    /\ MiddlewareIdle
    /\ ClassifierIdle
    /\ OtherIdle

NextVersion ==
    \/ \E s \in Savers : Load(s)
    \/ \E s \in Savers : SaveBegin(s)
    \/ \E s \in Savers : SuperSave(s)
    \/ \E s \in Savers : Commit(s)

SpecVersion == InitVersion /\ [][NextVersion]_vars

----------------------------------------------------------------------------
(* Properties of validation and save *)

HasNestedInput == \E i \in 1..Len(request.items) : request.items[i].t = "nested"

NoTicketSaved == \A k \in 1..Len(tickets) : tickets[k].saves = 0

\* C1: validating a parent whose related field receives nested (dict) input
\* writes nothing: once is_valid() has returned, whether it accepted or
\* rejected the payload, storage is what it was when the serializer was
\* constructed and no child serializer has been saved; storage differs from
\* that only once save() has been entered.
C1_ValidationWritesNoChild ==
    /\ pc \in {"valid", "invalid"} => db = before /\ NoTicketSaved
    /\ db # before => pc \in {"write", "apply", "raised", "returning", "saved"}

\* The test's case: a valid nested child under a parent that fails validation.
C1_Witness ==
    /\ pc = "invalid"
    /\ ~request.parent_valid
    /\ \E i \in 1..Len(request.items) :
            request.items[i].t = "nested" /\ request.items[i].valid

\* C2: a save() that raises leaves storage exactly as it was before save() was
\* called, whichever step raised: resolving a deferred child, writing the
\* parent, or applying a root-first relation.
C2_SaveAllOrNothing ==
    pc = "failed" => db = before /\ db = savepoint

\* A save that had already persisted a child when a later step raised.
C2_Witness ==
    /\ pc = "failed"
    /\ \E k \in 1..Len(tickets) : tickets[k].result # NULL


----------------------------------------------------------------------------
(* Properties of the write order *)

WriteOrder == cfg.resolved_relation_write.write_order
RelationKind == cfg.resolved_relation_write.relation_kind
SyncMode == cfg.resolved_relation_write.sync_mode

\* What is_valid() produced for this request
Validated == run_validation(cfg, before, request.items)

\* The instance an element of the validated value stands for once resolved
ResolvedPk(item) == IF IsDeferred(item) THEN tickets[item.k].result ELSE item.pk

\* C6: with write order dependency_first, when the parent's own create/update
\* is about to be called every deferred operation of the field's value (single
\* or in a list) has been resolved: its child is in storage, the parent row is
\* not yet written, and the value handed to the parent holds the saved child
\* instance at the place of each deferred operation; the parent row written
\* then references exactly those instances.
C6_DependencyFirstResolvedBeforeParent ==
    WriteOrder = "dependency_first" =>
        /\ pc = "write" =>
            /\ validated_data.present
            /\ ~contains_deferred_related(validated_data.value)
            /\ db.parents = savepoint.parents
            /\ Len(validated_data.value) = Len(Validated.items)
            /\ \A i \in 1..Len(Validated.items) :
                LET orig == Validated.items[i]
                    now == validated_data.value[i]
                IN  IF IsDeferred(orig)
                        THEN /\ tickets[orig.k].saves = 1
                             /\ tickets[orig.k].result \in DOMAIN db.children
                             /\ now.t = "inst"
                             /\ now.pk = tickets[orig.k].result
                        ELSE now = orig
        /\ pc = "apply" =>
            db.parents[instance].rel = {ResolvedPk(Validated.items[i]) :
                                            i \in 1..Len(Validated.items)}

\* A created parent that references the child saved from a nested list element.
C6_Witness ==
    /\ WriteOrder = "dependency_first"
    /\ pc = "apply"
    /\ request.op = "create"
    /\ cfg.many
    /\ \E k \in 1..Len(tickets) :
            /\ tickets[k].result \in db.parents[instance].rel
            /\ tickets[k].result \notin DOMAIN before.children

\* C7: with write order root_first the field's value is taken out of the data
\* the parent's initial create/update receives and held aside; nothing of the
\* relation is written (no deferred child saved, no row changed) before the
\* parent has been written, and when the relation is applied the parent
\* instance exists in storage with a primary key.
C7_RootFirstAppliedAfterParent ==
    WriteOrder = "root_first" =>
        /\ pc \in {"resolve", "write", "apply"} =>
            /\ ~validated_data.present
            /\ root_first_values = Present(Validated.items)
        /\ pc \in {"extract", "resolve", "write"} =>
            db = savepoint /\ NoTicketSaved
        /\ pc = "apply" =>
            /\ instance # NULL
            /\ instance \in DOMAIN db.parents
            /\ db.children = savepoint.children
            /\ NoTicketSaved
            /\ request.op = "create" => db.parents[instance].rel = {}

\* A new parent row exists and its deferred children are still unsaved.
C7_Witness ==
    /\ WriteOrder = "root_first"
    /\ pc = "apply"
    /\ request.op = "create"
    /\ Len(tickets) > 0
    /\ instance \notin DOMAIN savepoint.parents

\* The child a saved operation produced is linked to the parent.
LinkedToParent(child) ==
    IF RelationKind = "reverse_fk"
        THEN db.children[child].link = instance
        ELSE child \in db.parents[instance].rel

\* C8: no deferred operation is ever saved twice, and when save() returns each
\* deferred operation of the validated data has been saved exactly once, its
\* child is in storage and linked to the parent, and storage holds one new
\* child row per operation that was not bound to an existing child.
C8_DeferredConsumedExactlyOnce ==
    /\ \A k \in 1..Len(tickets) : tickets[k].saves <= 1
    /\ pc = "saved" =>
        /\ \A k \in 1..Len(tickets) :
            /\ tickets[k].saves = 1
            /\ tickets[k].result \in DOMAIN db.children
            /\ LinkedToParent(tickets[k].result)
        /\ Cardinality(DOMAIN db.children \ DOMAIN before.children)
            = Cardinality({k \in 1..Len(tickets) :
                                Validated.tickets[k].instance = NULL})

\* A save that returned after consuming two deferred operations.
C8_Witness ==
    /\ pc = "saved"
    /\ Len(tickets) >= 2
    /\ \A k \in 1..Len(tickets) : tickets[k].saves = 1

----------------------------------------------------------------------------
(* Properties of reverse foreign-key application *)

\* The instances the held-aside value provides
Provided ==
    {ResolvedPk(root_first_values.value[i]) :
        i \in 1..Len(root_first_values.value)}

NestedItems == {i \in 1..Len(request.items) : request.items[i].t = "nested"}

NewChildren == DOMAIN db.children \ DOMAIN before.children

\* C9: a reverse_fk relation applied with sync_mode replace or sync (which
\* succeeds only on a nullable child link) leaves exactly the provided
\* children linked to the parent, and every child that was linked before and
\* is not provided has a null link.
C9_ReverseFkSyncEqualsProvided ==
    (pc = "saved" /\ RelationKind = "reverse_fk"
        /\ SyncMode \in {"replace", "sync"}) =>
        /\ cfg.bound_model_field.null
        /\ ReverseManager(db, instance) = Provided
        /\ \A c \in ReverseManager(before, instance) \ Provided :
                db.children[c].link = NULL

\* Existing {1, 2}, provided {1, 3}: afterwards {1, 3}, and 2 is unlinked.
C9_Witness ==
    /\ pc = "saved"
    /\ RelationKind = "reverse_fk"
    /\ SyncMode \in {"replace", "sync"}
    /\ ReverseManager(before, instance) = {1, 2}
    /\ ReverseManager(db, instance) = {1, 3}
    /\ db.children[2].link = NULL

\* What C10 states of every root-first reverse_fk save with sync_mode append
AppendLinksAll ==
    /\ ReverseManager(db, instance) = ReverseManager(before, instance) \cup Provided
    /\ \A c \in DOMAIN before.children :
            c \notin Provided => db.children[c] = before.children[c]

\* C10 as stated: one child row is created per nested item.
C10_OneRowPerNestedItem ==
    (pc = "saved" /\ RelationKind = "reverse_fk" /\ WriteOrder = "root_first"
        /\ SyncMode = "append") =>
        /\ AppendLinksAll
        /\ Cardinality(NewChildren) = Cardinality(NestedItems)

\* C10, amended: saving a root-first reverse_fk relation with sync_mode append
\* links every provided child to the parent, unlinks and changes no child that
\* was not provided, and creates exactly one child row per nested item that
\* was not bound to an existing child (a nested item whose lookup value finds
\* an existing child under update_if_exists updates that child in place); a
\* child supplied by existing id is re-linked without a new row.
C10_AppendLinksWithoutDuplicates ==
    (pc = "saved" /\ RelationKind = "reverse_fk" /\ WriteOrder = "root_first"
        /\ SyncMode = "append") =>
        /\ AppendLinksAll
        /\ Cardinality(NewChildren)
            = Cardinality({k \in 1..Len(tickets) :
                                Validated.tickets[k].instance = NULL})
        /\ \A i \in 1..Len(request.items) :
                request.items[i].t = "id" =>
                    /\ request.items[i].pk \in DOMAIN before.children
                    /\ db.children[request.items[i].pk].link = instance

\* A new parent given one nested child and child 3 by id: one row is created
\* and child 3 moves from parent 2 to the new parent.
C10_Witness ==
    /\ pc = "saved"
    /\ RelationKind = "reverse_fk"
    /\ SyncMode = "append"
    /\ request.op = "create"
    /\ before.children[1].link = 1
    /\ Cardinality(NewChildren) = 1
    /\ db.children[3].link = instance
    /\ Cardinality(ReverseManager(db, instance)) = 2

\* A reverse_fk field whose replace/sync has no nullable link to clear
NonNullableSync ==
    /\ RelationKind = "reverse_fk"
    /\ WriteOrder = "root_first"
    /\ SyncMode \in {"replace", "sync"}
    /\ cfg.resolved_relation_write.child_link_field # NoField
    /\ ~(cfg.bound_model_field.exists /\ cfg.bound_model_field.null)

\* C11: a save that applies a reverse_fk relation with sync_mode replace or
\* sync over a child link that is not nullable never completes the apply step:
\* it raises there, with the parent written, and at the raise and after the
\* save has failed every child that was linked to the parent is still linked
\* to it.
C11_NonNullableSyncRaises ==
    NonNullableSync =>
        /\ pc \notin {"returning", "saved"}
        /\ (pc \in {"raised", "failed"}
                /\ error \notin {"ChildSaveError", "ParentSaveError"}) =>
                    error = "ValidationError(nullable)"
        /\ (pc \in {"raised", "failed"} /\ error = "ValidationError(nullable)") =>
            /\ instance # NULL
            /\ \A c \in ReverseManager(savepoint, instance) :
                    db.children[c].link = instance

\* Parent 1 with children 1 and 2 is updated with child 3 by id under
\* replace/sync over a non-nullable link: child 3 has been relinked, the apply
\* step has raised, and children 1 and 2 are still linked to parent 1.
C11_Witness ==
    /\ NonNullableSync
    /\ pc = "raised"
    /\ error = "ValidationError(nullable)"
    /\ request.op = "update"
    /\ request.items = <<RawId(3)>>
    /\ ReverseManager(savepoint, instance) = {1, 2}
    /\ ReverseManager(db, instance) = {1, 2, 3}

----------------------------------------------------------------------------
(* Properties of the bulk update endpoint *)

Responded == bpc = "responded"

PayloadRows == request_data.rows

\* The row carries an id the ORM can look up
HasId(row) == row.is_dict /\ row.id.t # "absent"

\* The row's id names an instance of the view's queryset
Accessible(row) == to_python(row.id) \in view.queryset \cap DOMAIN users_before

RowOrders(n) ==
    {p \in [1..n -> 1..n] : \A i, j \in 1..n : p[i] = p[j] => i = j}

Permuted(payload, p) ==
    [payload EXCEPT !.rows = [i \in 1..Len(payload.rows) |-> payload.rows[p[i]]]]

\* C3: the stored result of a bulk update does not depend on the order of the
\* payload's rows: every permutation of the rows, handled from the same table,
\* gives the same response status and the same stored field values; and when
\* the batch is accepted every field of every row is stored on the instance
\* whose primary key is that row's id, all other instances keeping theirs.
C3_BulkUpdateRowIdentity ==
    Responded =>
        /\ \A p \in RowOrders(Len(PayloadRows)) :
            LET r == bulk_update_view(view, users_before, method,
                                      Permuted(request_data, p), ambient)
            IN  r.status = response /\ r.table = users
        /\ response = 200 =>
            /\ \A i \in 1..Len(PayloadRows) :
                /\ HasId(PayloadRows[i])
                /\ \A a \in DOMAIN PayloadRows[i].fields :
                    users[to_python(PayloadRows[i].id)][a]
                        = PayloadRows[i].fields[a]
            /\ \A pk \in DOMAIN users :
                (\A i \in 1..Len(PayloadRows) : to_python(PayloadRows[i].id) # pk)
                    => users[pk] = users_before[pk]

\* An accepted batch whose rows arrive in the reverse of the queryset's order
\* and carry different values
C3_Witness ==
    /\ Responded
    /\ response = 200
    /\ Len(PayloadRows) = 2
    /\ to_python(PayloadRows[1].id) = 2
    /\ to_python(PayloadRows[2].id) = 1
    /\ "email" \in DOMAIN PayloadRows[1].fields
    /\ "email" \in DOMAIN PayloadRows[2].fields
    /\ PayloadRows[1].fields["email"] # PayloadRows[2].fields["email"]
    /\ users[2]["email"] = PayloadRows[1].fields["email"]
    /\ users[1]["email"] = PayloadRows[2].fields["email"]

C5_BulkUpdateRejectsDuplicateId ==
    (/\ Responded
     /\ \E i, j \in 1..Len(PayloadRows) :
            /\ i < j
            /\ HasId(PayloadRows[i]) /\ HasId(PayloadRows[j])
            /\ to_python(PayloadRows[i].id) = to_python(PayloadRows[j].id))
        => /\ response = 400
           /\ users = users_before
           /\ issued = <<>>

\* A rejected batch that names the accessible instance 1 twice with two
\* different values
C5_Witness ==
    /\ Responded
    /\ Len(PayloadRows) = 2
    /\ PayloadRows[1].id = IntId(1)
    /\ PayloadRows[2].id = IntId(1)
    /\ "email" \in DOMAIN PayloadRows[1].fields
    /\ "email" \in DOMAIN PayloadRows[2].fields
    /\ PayloadRows[1].fields["email"] # PayloadRows[2].fields["email"]
    /\ method = "PATCH"
    /\ view.bulk_batch_size = NULL
    /\ response = 400
    /\ users = users_before

----------------------------------------------------------------------------
(* Properties of BulkUpdateListSerializer.update *)

Returned == bpc = "returned"

DirectWrite == ~view.use_save_on_bulk_update

\* The row's validated data holds a deferred operation
CarriesDeferred(row) ==
    \E a \in DOMAIN row.fields :
        contains_deferred_related_operation(row.fields[a])

\* C12: a bulk update in which some row's value is or contains a deferred
\* relation operation raises, and when it raises no instance save and no bulk
\* write has been issued for any row, in direct-write and in save-loop mode.
C12_DeferredFailsBeforePersistence ==
    (Returned /\ \E i \in 1..Len(PayloadRows) : CarriesDeferred(PayloadRows[i]))
        => /\ raised = "ValidationError(deferred)"
           /\ issued = <<>>

----------------------------------------------------------------------------
(* Properties of the bulk serializer contract *)

WritableRelationFields ==
    {f \in view.serializer_fields :
        ~f.read_only /\ f.kind \in {"configurable", "nested"}}

\* C13: with bulk_direct_serializers_only at its default, a bulk create or
\* bulk update whose serializer declares a writable nested serializer or
\* configurable relation field is answered with 400 without reaching payload
\* validation or save, with the table unchanged and no write issued; and a
\* serializer whose nested and relation fields are all read-only is never
\* rejected by the contract check.
C13_BulkRejectsWritableRelationFields ==
    Responded =>
        /\ (view.bulk_direct_serializers_only /\ WritableRelationFields # {}) =>
            /\ response = 400
            /\ stage \notin {"is_valid", "save"}
            /\ users = users_before
            /\ issued = <<>>
        /\ WritableRelationFields = {} => stage # "contract"

\* Bulk create and bulk update of acceptable rows rejected at the contract
\* check
C13_Witness ==
    /\ Responded
    /\ view.bulk_direct_serializers_only
    /\ WritableRelationFields # {}
    /\ Len(PayloadRows) = 2
    /\ \A i \in 1..2 : "username" \in DOMAIN PayloadRows[i].fields
    /\ PayloadRows[1].id = IntId(1)
    /\ PayloadRows[2].id = IntId(2)
    /\ stage = "contract"
    /\ response = 400

----------------------------------------------------------------------------
(* Properties of the persistence path of a bulk update *)

\* The pks of the instances handed to update(), in payload order
PayloadPks == [i \in 1..Len(PayloadRows) |-> to_python(PayloadRows[i].id)]

\* The names of the attributes the loop assigned: the rows' own and, in
\* direct-write mode, the audit defaults
TouchedFields ==
    UNION {DOMAIN PayloadRows[i].fields : i \in 1..Len(PayloadRows)}
    \cup (IF DirectWrite /\ model_has_field(users_before, "updated_at")
            THEN {"updated_at"} ELSE {})
    \cup (IF DirectWrite /\ model_has_field(users_before, "updated_by")
             /\ ambient.current_user # NoneValue
            THEN {"updated_by"} ELSE {})

SaveLoopCalls == [i \in 1..Len(PayloadRows) |-> SaveCall(PayloadPks[i])]

\* C14 as stated: direct-write mode issues one bulk update statement over all
\* instances with the union of the touched field names and no save; save-loop
\* mode saves each instance once in payload order and issues no statement.
C14_OnePersistencePath ==
    (Returned /\ raised = "") =>
        IF DirectWrite
            THEN issued = <<BulkUpdateCall(PayloadPks, TouchedFields)>>
            ELSE issued = SaveLoopCalls

\* C14, amended: a bulk update that returns has used one persistence path,
\* chosen by use_save_on_bulk_update.  In direct-write mode no instance is
\* saved, and the calls issued are one bulk update statement over all
\* instances with the union of the touched field names when some field was
\* touched, and none at all when no field was touched.  In save-loop mode each
\* instance is saved exactly once, in payload order, and no bulk update
\* statement is issued.
C14_OnePersistencePathWhenTouched ==
    (Returned /\ raised = "") =>
        IF DirectWrite
            THEN issued = IF TouchedFields = {}
                             THEN <<>>
                             ELSE <<BulkUpdateCall(PayloadPks, TouchedFields)>>
            ELSE issued = SaveLoopCalls

\* Two instances handed over in descending pk order with different touched
\* fields, written by one statement over both with the union of the fields
C14_Witness ==
    /\ Returned
    /\ raised = ""
    /\ DirectWrite
    /\ PayloadPks = <<2, 1>>
    /\ DOMAIN PayloadRows[1].fields = {"email"}
    /\ DOMAIN PayloadRows[2].fields = {"profile"}
    /\ ~model_has_field(users_before, "updated_at")
    /\ issued = <<BulkUpdateCall(<<2, 1>>, {"email", "profile"})>>
    /\ users[2].email = Plain("a@x")
    /\ users[1].profile = Plain("p1")

----------------------------------------------------------------------------
(* Properties of the audit defaults *)

Audited == model_has_field(users_before, "updated_at")
            /\ model_has_field(users_before, "updated_by")

\* C15: after a direct-write bulk update of a model with updated_at and
\* updated_by, each instance holds the row's own updated_at and updated_by
\* where the row supplied them; where it did not, updated_at is the current
\* time, and updated_by is the current authenticated user, or is left as it
\* was when there is no such user.
C15_AuditDefaultsOnlyWhenMissing ==
    (Returned /\ raised = "" /\ DirectWrite /\ Audited) =>
        \A i \in 1..Len(PayloadRows) :
            LET given == PayloadRows[i].fields
                stored == users[PayloadPks[i]]
            IN  /\ stored.updated_at =
                        IF "updated_at" \in DOMAIN given
                            THEN given.updated_at ELSE ambient.now
                /\ stored.updated_by =
                        IF "updated_by" \in DOMAIN given
                            THEN given.updated_by
                        ELSE IF ambient.current_user # NoneValue
                            THEN ambient.current_user
                        ELSE users_before[PayloadPks[i]].updated_by

\* One row supplies both audit values and keeps them, the other supplies
\* neither and receives the current time and the current user
C15_Witness ==
    /\ Returned
    /\ raised = ""
    /\ DirectWrite
    /\ Audited
    /\ ambient.current_user = Plain("alice")
    /\ Len(PayloadRows) = 2
    /\ {"updated_at", "updated_by"} \subseteq DOMAIN PayloadRows[1].fields
    /\ {"updated_at", "updated_by"} \cap DOMAIN PayloadRows[2].fields = {}
    /\ users[PayloadPks[1]].updated_at = Plain("given")
    /\ users[PayloadPks[1]].updated_by = Plain("bob")
    /\ users[PayloadPks[2]].updated_at = Plain("now")
    /\ users[PayloadPks[2]].updated_by = Plain("alice")

----------------------------------------------------------------------------
(* Properties of bulk delete *)

\* The rows the request asked to remove and the view could see
DirectlyDeleted ==
    {pk \in view.queryset \cap DOMAIN store_before.rows :
        \E i \in 1..Len(PayloadRows) : to_python(PayloadRows[i]) = pk}

\* C16: the count of a bulk delete response is the number of directly deleted
\* rows of the target model; rows removed by cascade are not counted.
C16_CountsDirectlyDeletedRows ==
    (Responded /\ response = 200) =>
        response_data.count = Cardinality(DirectlyDeleted)

----------------------------------------------------------------------------
(* Properties of the current-user context *)

\* C17: CurrentUserMiddleware sets the current user on entry and resets it
\* exactly once on exit, in __call__ and in __acall__, whether the handler
\* returned or raised; after the call the context holds the value it held
\* before the call, also when the call was nested in another.
C17_SetOnEntryResetOnceOnExit ==
    /\ \A c \in Contexts : \A i \in 1..Len(frames[c]) :
            frames[c][i].seen_on_entry = frames[c][i].user
    /\ last.done => /\ last.resets = 1
                    /\ last.value_after = last.value_before

\* A nested call on the asynchronous path has exited after its handler
\* raised, and the enclosing call's user is current again.
C17_Witness ==
    /\ last.done
    /\ is_async(last.context)
    /\ last.outcome = "raised"
    /\ last.value_before = Plain("alice")
    /\ Len(frames[last.context]) = 1
    /\ ctxvar[last.context] = Plain("alice")

\* The contexts in which a request is being handled
InFlight == {c \in Contexts : frames[c] # <<>>}

\* C18: while a request is handled, get_current_user() in its context returns
\* that request's own user, whatever the requests in the other contexts have
\* set or reset.
C18_RequestsNeverSeeEachOthersUser ==
    \A c \in InFlight : get_current_user(ctxvar, c) = Top(c).user

\* Two requests of different users are in flight at once, one of them after a
\* call in the other context has already been reset.
C18_Witness ==
    /\ InFlight = Contexts
    /\ Top("thread").user = Plain("alice")
    /\ Top("task").user = Plain("bob")
    /\ last.done

----------------------------------------------------------------------------
(* Properties of the relation classifier *)

Bound == bind_calls >= 1

\* C19: the resolved write order is the declared one when it is
\* dependency_first or root_first; when it is auto it follows from the
\* resolved relation kind alone: root_first for reverse_fk and reverse_m2m,
\* dependency_first for fk, m2m and generic.
C19_WriteOrderFollowsRelationKind ==
    Bound =>
        LET declared_order == declared.relation_write.write_order
        IN  /\ declared_order # "auto" => binding.write_order = declared_order
            /\ (declared_order = "auto"
                    /\ binding.relation_kind \in {"reverse_fk", "reverse_m2m"})
                => binding.write_order = "root_first"
            /\ (declared_order = "auto"
                    /\ binding.relation_kind \in {"fk", "m2m", "generic"})
                => binding.write_order = "dependency_first"
            /\ binding.relation_kind \in
                    {"reverse_fk", "reverse_m2m", "fk", "m2m", "generic"}

\* A forward foreign key declared as reverse_m2m, write order left to auto,
\* is written root first.
C19_Witness ==
    /\ Bound
    /\ declared.relation_write.write_order = "auto"
    /\ declared.relation_write.relation_kind = "reverse_m2m"
    /\ declared.model_field.exists /\ declared.model_field.many_to_one
    /\ binding.write_order = "root_first"

Inferring == Bound /\ declared.relation_write.relation_kind = "auto"

NoLinkDeclared == declared.relation_write.child_link_field = NoField

\* C20: with relation_kind auto, a descriptor is classified reverse_fk, with
\* its owning field's name as child link field, when one-to-many and
\* auto-created; reverse_m2m when many-to-many and auto-created; fk when
\* many-to-one or one-to-one; m2m when many-to-many and not auto-created;
\* generic in every other case and when the source is no model field.  A
\* declared relation kind other than auto replaces the inferred one, and
\* classifying the same declaration again gives the same result.
C20_ClassifierMapping ==
    LET f == declared.model_field
    IN  /\ (Inferring /\ f.exists /\ f.one_to_many /\ f.auto_created)
            => /\ binding.relation_kind = "reverse_fk"
               /\ NoLinkDeclared => binding.child_link_field = f.field_name
        /\ (Inferring /\ f.exists /\ f.many_to_many /\ f.auto_created)
            => binding.relation_kind = "reverse_m2m"
        /\ (Inferring /\ f.exists /\ (f.many_to_one \/ f.one_to_one))
            => binding.relation_kind = "fk"
        /\ (Inferring /\ f.exists /\ f.many_to_many /\ ~f.auto_created)
            => binding.relation_kind = "m2m"
        /\ (Inferring /\ (\/ ~f.exists
                          \/ f.one_to_many /\ ~f.auto_created
                          \/ ~(f.one_to_many \/ f.many_to_many
                                \/ f.many_to_one \/ f.one_to_one)))
            => binding.relation_kind = "generic"
        /\ (Inferring /\ NoLinkDeclared /\ binding.relation_kind # "reverse_fk")
            => binding.child_link_field = NoField
        /\ (Bound /\ declared.relation_write.relation_kind # "auto")
            => binding.relation_kind = declared.relation_write.relation_kind
        /\ bind_calls >= 2
            => /\ binding.relation_kind = first_binding.relation_kind
               /\ binding.child_link_field = first_binding.child_link_field

\* An auto-created one-to-many descriptor has been classified twice
C20_Witness ==
    /\ bind_calls = MaxBinds
    /\ declared.relation_write.relation_kind = "auto"
    /\ NoLinkDeclared
    /\ declared.model_field.exists
    /\ declared.model_field.one_to_many /\ declared.model_field.auto_created
    /\ binding.relation_kind = "reverse_fk"
    /\ binding.child_link_field = "owner"

----------------------------------------------------------------------------
(* Properties of field construction *)

\* What the configuration invariant asks of a field's attributes
WellConfigured(f) ==
    /\ \A fmt \in f.input_formats : fmt \in {"id", "nested", "slug", "object"}
    /\ f.output_format \in {"id", "str", "serialized", "custom"}
    /\ f.output_format = "custom" => f.custom_output_callable
    /\ (f.output_format = "serialized" \/ "nested" \in f.input_formats)
            => f.serializer_class
    /\ f.relation_write.relation_kind \in
            {Unset, "auto", "generic", "fk", "m2m", "reverse_fk", "reverse_m2m"}
    /\ f.relation_write.write_order \in
            {Unset, "auto", "dependency_first", "root_first"}
    /\ f.relation_write.sync_mode \in {Unset, "append", "replace", "sync"}

\* C21: a field whose constructor succeeded has input formats, output format
\* and relation_write keys inside their enumerations, a custom output callable
\* when its output format is custom, and a serializer class when its output is
\* serialized or it accepts nested input; the constructor raises a
\* configuration error for every other combination of arguments.
C21_ConstructedFieldsAreWellConfigured ==
    constructed.done =>
        (constructed.error = "" <=> WellConfigured(constructed.field))

\* A field accepting nested input, with a custom output callable and a sync
\* relation_write, was constructed.
C21_Witness ==
    /\ constructed.done
    /\ constructed.error = ""
    /\ "nested" \in constructed.field.input_formats
    /\ constructed.field.output_format = "custom"
    /\ constructed.field.relation_write.sync_mode = "sync"

----------------------------------------------------------------------------
(* Properties of string input *)

BothAccepted == converted.done /\ {"id", "slug"} \subseteq finder.input_formats

FirstHandler == IF text_input.isdigit THEN "id" ELSE "slug"

SecondHandler == IF text_input.isdigit THEN "slug" ELSE "id"

\* A lookup fails when it raises a validation error
Fails(handler) == handle(handler, finder, text_input).error \in ValidationErrors

\* C22: when slug and id are both accepted, a numeric-looking string is
\* looked up by identifier first and a non-numeric one by slug first; the
\* second lookup is made only when the first failed, and when both fail the
\* error raised is the first lookup's.
C22_FirstLookupByLooksAndFirstErrorSurfaces ==
    BothAccepted =>
        /\ Len(converted.lookups) >= 1
        /\ converted.lookups[1] = FirstHandler
        /\ Len(converted.lookups) = 2
            => /\ converted.lookups[2] = SecondHandler
               /\ Fails(FirstHandler)
        /\ (Fails(FirstHandler) /\ Fails(SecondHandler))
            => converted.error = handle(FirstHandler, finder, text_input).error
        /\ (Fails(FirstHandler) /\ handle(SecondHandler, finder, text_input).error = "")
            => /\ converted.error = ""
               /\ converted.pk = handle(SecondHandler, finder, text_input).pk

\* A non-numeric string found neither by slug nor by identifier: the slug
\* lookup's does_not_exist is raised, not the identifier lookup's
\* incorrect_type.
C22_Witness ==
    /\ BothAccepted
    /\ ~text_input.isdigit
    /\ converted.lookups = <<"slug", "id">>
    /\ handle("id", finder, text_input).error = "ValidationError(incorrect_type)"
    /\ converted.error = "ValidationError(does_not_exist)"

\* C23: a string resolved by slug lookup resolves to the row whose attribute
\* named by slug_lookup_field equals the string, and fails when no row has it.
C23_SlugLookupUsesSlugLookupField ==
    (converted.done /\ converted.lookups = <<"slug">>) =>
        LET wanted == Matches(finder.queryset, finder.slug_lookup_field, text_input)
        IN  /\ converted.error = "" => converted.pk \in wanted
            /\ wanted = {} => converted.error # ""

----------------------------------------------------------------------------
(* Properties of file import *)

\* The request asked for replace mode and the file could be read
ReplaceHandled ==
    /\ ipc = "responded"
    /\ upload.replace_data = "true"
    /\ upload.append_data \in {"", "false"}
    /\ upload.header_ok

\* C24: a replace import in which a row fails leaves the table as it was,
\* old rows kept and no imported row committed, and answers with an error
\* whose deleted_count is 0; one in which no row fails leaves exactly the
\* imported rows.
C24_ReplaceImportIsAllOrNothing ==
    ReplaceHandled =>
        /\ Failed(upload.lines) # {}
            => /\ records = records_before
               /\ imported.status >= 400
               /\ ~imported.success
               /\ imported.deleted_count = 0
        /\ Failed(upload.lines) = {}
            => /\ records = {FileRecord(i) : i \in 1..Len(upload.lines)}
               /\ imported.status = 201

\* Two old rows survive a replace import whose first line was good and whose
\* second line failed.
C24_Witness ==
    /\ ReplaceHandled
    /\ upload.lines = <<"ok", "bad">>
    /\ records = {OldRecord(1), OldRecord(2)}
    /\ imported.status = 422

----------------------------------------------------------------------------
(* Properties of many-to-many application *)

RootFirstManyToMany ==
    /\ pc = "saved"
    /\ RelationKind \in {"m2m", "reverse_m2m"}
    /\ WriteOrder = "root_first"

\* The parent's related set before the save; empty for a parent it created
PreviousRelated ==
    IF instance \in DOMAIN before.parents
        THEN before.parents[instance].rel
        ELSE {}

\* C25: a root-first m2m or reverse_m2m relation applied with sync_mode
\* replace or sync leaves the parent's related set equal to the provided
\* instances; applied with sync_mode append it leaves the previous set
\* together with the provided instances, none removed.
C25_ManyToManySetOrAdd ==
    RootFirstManyToMany =>
        /\ SyncMode \in {"replace", "sync"}
            => db.parents[instance].rel = Provided
        /\ SyncMode = "append"
            => db.parents[instance].rel = PreviousRelated \cup Provided

\* Parent 1, related to child 1, is given child 3 alone under replace or
\* sync: child 1 is gone from the set.
C25_Witness ==
    /\ RootFirstManyToMany
    /\ SyncMode \in {"replace", "sync"}
    /\ request.op = "update"
    /\ PreviousRelated = {1}
    /\ Provided = {3}
    /\ db.parents[instance].rel = {3}

----------------------------------------------------------------------------
(* Properties of the bulk update envelope *)

\* The payload is a list the batch size admits
ListAdmitted ==
    /\ request_data.is_list
    /\ Len(PayloadRows) > 0
    /\ Len(PayloadRows) <= get_bulk_batch_size(view)

\* Row i is not an object or has no usable id
Malformed(i) ==
    \/ ~PayloadRows[i].is_dict
    \/ PayloadRows[i].id.t \in {"absent", "none"}
    \/ PayloadRows[i].id = StrId(<<>>)

\* Row i is malformed or repeats the id of an earlier row
Offending(i) ==
    \/ Malformed(i)
    \/ \E j \in 1..(i - 1) :
            ~Malformed(j) /\ str(PayloadRows[j].id) = str(PayloadRows[i].id)

\* C26: a bulk update whose payload is not a list, is empty, exceeds the
\* batch size, or holds a row that is not an object or has no non-null,
\* non-empty id is answered with status 400, raised before the queryset is
\* evaluated, with no instance modified and no write issued; when the fault
\* is in a row, the error is keyed by the first offending row in payload
\* order.
C26_EnvelopeRejectedBeforeStorage ==
    Responded =>
        /\ (~ListAdmitted \/ \E i \in 1..Len(PayloadRows) : Malformed(i))
            => /\ response = 400
               /\ ~rejection.queried
               /\ users = users_before
               /\ issued = <<>>
        /\ (ListAdmitted /\ \E i \in 1..Len(PayloadRows) : Malformed(i))
            => /\ Offending(rejection.index + 1)
               /\ \A j \in 1..rejection.index : ~Offending(j)
               /\ rejection.error \in {"not_object", "missing_id", "duplicate_id"}

\* The first row names an instance that does not exist and the second row
\* has a null id: the second row is reported and the queryset is never
\* evaluated.
C26_Witness ==
    /\ Responded
    /\ Len(PayloadRows) = 2
    /\ PayloadRows[1].id = IntId(4)
    /\ PayloadRows[2].id = NoneId
    /\ response = 400
    /\ rejection.error = "missing_id"
    /\ rejection.index = 1
    /\ ~rejection.queried


----------------------------------------------------------------------------
(* Properties of a reverse_fk relation without a child link field *)

\* The root-first apply step has run on a reverse_fk field that has no child
\* link field, configured or inferred
AppliedWithoutChildLink ==
    /\ RelationKind = "reverse_fk"
    /\ cfg.resolved_relation_write.child_link_field = NoField
    /\ root_first_values.present
    /\ pc \in {"raised", "returning"}
    /\ error \notin {"ParentSaveError", "TypeError"}

\* C27: applying a reverse_fk relation whose child link field is neither
\* configured nor inferable raises a validation error before any child is
\* written: no deferred child serializer has been saved and the children
\* table is as it was when the save began, whatever the value holds.
C27_MissingChildLinkRaisesBeforeAnyChildWrite ==
    AppliedWithoutChildLink =>
        /\ pc = "raised"
        /\ error = "ValidationError"
        /\ db.children = savepoint.children
        /\ \A k \in DOMAIN tickets : tickets[k].saves = 0

\* The value mixes a nested item with an existing id, and the apply raised.
C27_Witness ==
    /\ AppliedWithoutChildLink
    /\ error = "ValidationError"
    /\ NestedItems # {}
    /\ NestedItems # 1..Len(request.items)
    /\ tickets # <<>>

----------------------------------------------------------------------------
(* Properties of the bound field's configuration *)

----------------------------------------------------------------------------
(* Frame of the direct-write bulk update *)

AuditFields == {"updated_at", "updated_by"}

\* update() returned normally in direct-write mode
DirectWriteReturned ==
    /\ bpc = "returned"
    /\ raised = ""
    /\ ~view.use_save_on_bulk_update

\* The positions of the payload whose row is for instance pk
RowsFor(pk) ==
    {i \in 1..Len(request_data.rows) : to_python(request_data.rows[i].id) = pk}

\* C29: after a successful direct-write bulk update every targeted instance
\* differs from what was stored only in the fields its own row names and in
\* the audit fields, even when another row of the batch names one of its
\* other fields, and an instance no row refers to is unchanged.
C29_DirectWriteChangesOnlyOwnRowFields ==
    DirectWriteReturned =>
        \A pk \in DOMAIN users :
            IF RowsFor(pk) = {}
                THEN users[pk] = users_before[pk]
                ELSE \A i \in RowsFor(pk) :
                        \A a \in DOMAIN users[pk] :
                            a \notin DOMAIN request_data.rows[i].fields
                                        \cup AuditFields
                                => users[pk][a] = users_before[pk][a]

\* Two rows on a table with audit columns: the row of account 1 names email
\* alone, the row of account 2 names profile alone.  Account 1 has the new
\* email and its old profile, account 2 the new profile and its old email,
\* both the new updated_at, and account 3 is as it was.
C29_Witness ==
    /\ DirectWriteReturned
    /\ users_before = AuditedAccounts
    /\ Len(request_data.rows) = 2
    /\ RowsFor(1) = {1}
    /\ RowsFor(2) = {2}
    /\ DOMAIN request_data.rows[1].fields = {"email"}
    /\ DOMAIN request_data.rows[2].fields = {"profile"}
    /\ users[1].email = Plain("a@x")
    /\ users[1].profile = Plain("p0")
    /\ users[2].profile = Plain("p1")
    /\ users[2].email = Plain("old@x")
    /\ users[1].updated_at = Plain("now")
    /\ users[3] = users_before[3]

----------------------------------------------------------------------------
(* Properties of VersionMixin.save *)

Saved(s) == savers[s].pc = "done" /\ savers[s].outcome = "saved"

Conflicted(s) ==
    savers[s].pc = "done" /\ savers[s].outcome = "VersionConflictError"

\* C30 as stated: whatever the arguments of save(), of two saves started
\* from copies holding the same version at most one succeeds, a save that
\* raises VersionConflictError writes nothing, and every successful save
\* leaves the stored version one above what it found.
C30_EverySaveIsAnOptimisticLock ==
    /\ \A s, t \in Savers :
        (s # t /\ Saved(s) /\ Saved(t))
            => savers[s].expected # savers[t].expected
    /\ \A s \in Savers : Conflicted(s) => savers[s].after = savers[s].before
    /\ \A s \in Savers :
        Saved(s) => savers[s].after.version = savers[s].before.version + 1

\* C30, for save() called without skip_version_increment: while no save
\* with skip_version_increment has written the row, of two saves started
\* from copies holding the same version v at most one succeeds; a save that
\* raises VersionConflictError writes nothing; every successful save leaves
\* the stored version at v + 1, one above what it found.
C30_SaveWithoutSkipIsAnOptimisticLock ==
    /\ ~versioned.skipped =>
        \A s, t \in Savers :
            (s # t /\ Saved(s) /\ Saved(t))
                => savers[s].expected # savers[t].expected
    /\ \A s \in Savers : Conflicted(s) => savers[s].after = savers[s].before
    /\ \A s \in Savers :
        (Saved(s) /\ ~savers[s].skip) =>
            /\ savers[s].after.version = savers[s].before.version + 1
            /\ savers[s].after.version = savers[s].expected + 1

\* Both writers loaded version 1; a's save went through and b's raised
\* VersionConflictError: the row is at version 2 with a's text.
C30_Witness ==
    /\ Saved("a")
    /\ Conflicted("b")
    /\ ~savers["a"].skip
    /\ savers["a"].expected = 1
    /\ savers["b"].expected = 1
    /\ versioned.row = RowImage(2, "a")
    /\ savers["b"].after = savers["b"].before

========================================================================
